---------------------------- MODULE Spec2Model ----------------------------
(***************************************************************************)
(* A model of the VibeDbg debugger extension: the named-pipe server        *)
(* (NamedPipeServer / ClientConnection), the wire codec (MessageProtocol), *)
(* the extension controller's message handler (ExtensionImpl), the command *)
(* router (CommandHandlers) and the command engine (CommandExecutor).      *)
(*                                                                         *)
(* The specifications that share the module:                               *)
(*   SpecEngine  one call of CommandExecutor::execute_command on an input  *)
(*               drawn from a bounded set of command strings;              *)
(*   Spec        the pipe server with its listener thread, its per-client  *)
(*               worker threads, the clients and the thread calling        *)
(*               stop();  FairSpec is Spec with the threads scheduled      *)
(*               fairly;                                                   *)
(*   SpecStats   threads calling execute_command concurrently with         *)
(*               get_stats and reset_stats;                                *)
(*   SpecCodec   MessageProtocol's serialize_*, parse_* and                *)
(*               create_error_message applied to messages and byte buffers *)
(*               drawn from bounded sets;                                  *)
(*   SpecQueue   the engine's task queue, its two worker threads,          *)
(*               cancel_all_pending and the destructor;                    *)
(*   SpecBatch   one call of execute_batch;                                *)
(*   SpecLifecycle  ExtensionImpl::initialize and shutdown, with each of   *)
(*               the steps of initialize failing or not;                   *)
(*   SpecCapture the OutputCapture sink receiving chunks of output;        *)
(*   SpecHelper  the capture installed and removed around a command;       *)
(*   SpecSession SessionManager::get_state against update_state;           *)
(*   SpecHandle  HandleWrapper objects over system handles;                *)
(*   SpecRouter  one call of CommandHandlers::handle_generic_command on a  *)
(*               command drawn from a bounded set;                         *)
(*   SpecRead    one connection's worker with every status a pipe read     *)
(*               can report;                                               *)
(*   SpecTeardown  ExtensionImpl::shutdown step by step against the        *)
(*               listener, the pipe workers and the engine's workers.      *)
(***************************************************************************)
EXTENDS Integers, Sequences, FiniteSets, TLC

VARIABLES
    \* ---- command engine (SpecEngine) ----
    e_pc,          \* "idle" | "ready" | "done"
    e_cmd,         \* the command string handed to execute_command
    e_opt,         \* ExecutionOptions
    e_env,         \* what the engine finds around it: session store, adapter
    e_res,         \* the CommandResult, with the adapter calls it made
    \* ---- pipe server (Spec) ----
    running,       \* NamedPipeServer::running_
    initialized,   \* ExtensionImpl::initialized_
    spc,           \* the controller thread: start(), then stop()
    lpc,           \* the listener thread (server_loop)
    lh,            \* the pipe instance the listener holds
    connections,   \* NamedPipeServer::connections_ (handles, in list order)
    active,        \* ClientConnection::active_ per handle
    wpc,           \* the worker thread per handle (handle_client_connection)
    readers,       \* holders of connections_mutex_ in shared mode
    cur,           \* per worker: the message read and its parse result
    lastRead,      \* per worker: what the last poll found in the pipe, if anything
    cstate,        \* per client: "idle" | "connected" | "closed"
    sentLog,       \* per client: the pipe messages written so far
    rd,            \* per client: how many of them the server has read
    outbox,        \* per client: what the server has written back
    server_stats,  \* NamedPipeServer::stats_ (the connection counters)
    \* ---- engine statistics (SpecStats) ----
    stats_,        \* CommandExecutor::stats_
    stats_mutex,   \* the thread holding CommandExecutor::stats_mutex_
    t_pc,          \* per calling thread: where it is in execute_command
    t_res,         \* per calling thread: the CommandResult being returned
    snapshot,      \* what the last get_stats() returned
    calls,         \* execute_command calls made so far
    \* ---- wire codec (SpecCodec) ----
    k_pc,          \* "idle" | "message" | "bytes" | "parsed"
    k_msg,         \* the message handed to serialize_*
    k_bytes,       \* a byte buffer: what serialize_* returned, or raw input
    k_parsed,      \* what parse_* returned for k_bytes
    \* ---- the engine's task queue (SpecQueue) ----
    pending_tasks_,       \* CommandExecutor::pending_tasks_ (task ids, front first)
    shutdown_requested_,  \* CommandExecutor::shutdown_requested_
    worker_threads_,      \* CommandExecutor::worker_threads_ (the threads not yet joined)
    qw_pc,         \* per engine worker: where it is in worker_thread_loop
    qw_task,       \* per engine worker: the task it took off the queue
    q_tasks,       \* per task id: its command and how far it has got
    \* ---- execute_batch (SpecBatch) ----
    b_pc,          \* "idle" | "loop" | "done"
    b_commands,    \* the vector of commands handed to execute_batch
    b_callback,    \* whether a progress callback was handed in
    b_i,           \* the loop index i
    batch_result,  \* the BatchResult being built
    b_progress,    \* the arguments of the progress callback, call by call
    b_executed,    \* the commands handed to execute_command_internal, in order
    \* ---- the extension's life cycle (SpecLifecycle) ----
    ext,           \* ExtensionImpl's members
    x_refs,        \* per debugger interface: the references the extension holds
    x_events,      \* what the last call acquired, created, destroyed and released
    x_ret,         \* the last call and what it returned
    x_calls,       \* calls of initialize and shutdown made so far
    \* ---- the output capture sink (SpecCapture) ----
    output_,       \* OutputCapture::output_, as the pieces appended to it
    extension_error_, \* OutputCapture::extension_error_
    export_error_, \* OutputCapture::export_error_
    o_calls,       \* calls of Output made so far
    \* ---- the capture scopes around a debugger command (SpecHelper) ----
    client_callbacks, \* the debugger client's output callbacks
    h_pc,          \* where each command is in its capture scope
    h_path,        \* which function runs each command
    previous_callbacks_, \* previous_callbacks_ / old_callbacks of each scope
    h_original,    \* the callbacks each scope found installed
    h_outcome,     \* how each command ended
    h_captured,    \* whose text each command's sink has received
    h_returned,    \* whose text each command returned as its output
    \* ---- the session store (SpecSession) ----
    state_,        \* SessionManager::state_
    initialized_,  \* SessionManager::initialized_
    state_mutex_,  \* SessionManager::state_mutex_: its exclusive and shared owners
    s_pc,          \* where each thread is in get_state or update_state
    s_new,         \* the new_state argument of the update in progress
    s_idx,         \* the member each thread copies next
    s_snapshot,    \* each reader's copy of the state
    s_states,      \* every complete state the store has held
    \* ---- handle wrappers (SpecHandle) ----
    handle_,       \* HandleWrapper::handle_ of each wrapper
    w_alive,       \* the wrappers constructed and not yet destroyed
    os_closes,     \* CloseHandle calls made, per handle value
    next_handle,   \* the next handle the system gives out
    k_raw,         \* open handles in the caller's hands, owned by no wrapper
    k_adopted,     \* handles a wrapper has adopted
    k_released,    \* handles given back by release()
    k_moved,       \* handles that changed wrapper by a move
    k_noop,        \* close() has been called on an invalid wrapper
    \* ---- the command router (SpecRouter) ----
    r_pc,          \* "idle" | "ready" | "done"
    r_cmd,         \* the command text the client sent
    r_env,         \* what the router finds around it
    r_res,         \* what handle_generic_command returned and handed to the adapter
    \* ---- one connection's worker and the system's read statuses (SpecRead) ----
    n_pc,          \* "loop" | "cleanup" | "done": where the worker is in handle_client_connection
    n_active,      \* ClientConnection::active_
    n_running,     \* NamedPipeServer::running_
    n_polls,       \* what the system returned to each read_message so far
    \* ---- shutdown against the running threads (SpecTeardown) ----
    z_pc,          \* where the thread that calls ExtensionImpl::shutdown is
    z_running,     \* NamedPipeServer::running_
    z_shutdown,    \* CommandExecutor::shutdown_requested_
    z_listener,    \* where the listener thread is in server_loop
    z_clients,     \* per pipe worker: where it is in handle_client_connection
    z_engine,      \* per engine worker: where it is in worker_thread_loop
    z_pending,     \* tasks in pending_tasks_
    z_interface    \* per sub-interface: whether the extension still holds its reference

engineVars == <<e_pc, e_cmd, e_opt, e_env, e_res>>
pipeVars == <<running, initialized, spc, lpc, lh, connections, active, wpc,
              readers, cur, lastRead, cstate, sentLog, rd, outbox,
              server_stats>>
statsVars == <<stats_, stats_mutex, t_pc, t_res, snapshot, calls>>
codecVars == <<k_pc, k_msg, k_bytes, k_parsed>>
queueVars == <<pending_tasks_, shutdown_requested_, worker_threads_, qw_pc,
               qw_task, q_tasks>>
batchVars == <<b_pc, b_commands, b_callback, b_i, batch_result, b_progress, b_executed>>
lifecycleVars == <<ext, x_refs, x_events, x_ret, x_calls>>
captureVars == <<output_, extension_error_, export_error_, o_calls>>
helperVars == <<client_callbacks, h_pc, h_path, previous_callbacks_, h_original, h_outcome, h_captured, h_returned>>
sessionVars == <<state_, initialized_, state_mutex_, s_pc, s_new, s_idx, s_snapshot, s_states>>
handleVars == <<handle_, w_alive, os_closes, next_handle, k_raw, k_adopted, k_released, k_moved, k_noop>>
routerVars == <<r_pc, r_cmd, r_env, r_res>>
readerVars == <<n_pc, n_active, n_running, n_polls>>
teardownVars == <<z_pc, z_running, z_shutdown, z_listener, z_clients, z_engine, z_pending, z_interface>>
vars == <<e_pc, e_cmd, e_opt, e_env, e_res,
          running, initialized, spc, lpc, lh, connections, active, wpc,
          readers, cur, lastRead, cstate, sentLog, rd, outbox, server_stats,
          stats_, stats_mutex, t_pc, t_res, snapshot, calls,
          k_pc, k_msg, k_bytes, k_parsed,
          pending_tasks_, shutdown_requested_, worker_threads_, qw_pc,
          qw_task, q_tasks,
          b_pc, b_commands, b_callback, b_i, batch_result, b_progress, b_executed,
          ext, x_refs, x_events, x_ret, x_calls,
          output_, extension_error_, export_error_, o_calls,
          client_callbacks, h_pc, h_path, previous_callbacks_, h_original, h_outcome,
          h_captured, h_returned,
          state_, initialized_, state_mutex_, s_pc, s_new, s_idx, s_snapshot, s_states,
          handle_, w_alive, os_closes, next_handle, k_raw, k_adopted, k_released, k_moved, k_noop,
          r_pc, r_cmd, r_env, r_res,
          n_pc, n_active, n_running, n_polls,
          z_pc, z_running, z_shutdown, z_listener, z_clients, z_engine, z_pending, z_interface>>

\* What the steps of one component leave alone.
nonEngineVars == <<pipeVars, statsVars, codecVars, queueVars, batchVars, lifecycleVars, captureVars, helperVars, sessionVars, handleVars, routerVars, readerVars, teardownVars>>
nonPipeVars == <<engineVars, statsVars, codecVars, queueVars, batchVars, lifecycleVars, captureVars, helperVars, sessionVars, handleVars, routerVars, readerVars, teardownVars>>
nonStatsVars == <<engineVars, pipeVars, codecVars, queueVars, batchVars, lifecycleVars, captureVars, helperVars, sessionVars, handleVars, routerVars, readerVars, teardownVars>>
nonCodecVars == <<engineVars, pipeVars, statsVars, queueVars, batchVars, lifecycleVars, captureVars, helperVars, sessionVars, handleVars, routerVars, readerVars, teardownVars>>
nonQueueVars == <<engineVars, pipeVars, statsVars, codecVars, batchVars, lifecycleVars, captureVars, helperVars, sessionVars, handleVars, routerVars, readerVars, teardownVars>>
nonBatchVars == <<engineVars, pipeVars, statsVars, codecVars, queueVars, lifecycleVars, captureVars, helperVars, sessionVars, handleVars, routerVars, readerVars, teardownVars>>
nonLifecycleVars == <<engineVars, pipeVars, statsVars, codecVars, queueVars, batchVars, captureVars, helperVars, sessionVars, handleVars, routerVars, readerVars, teardownVars>>
nonCaptureVars == <<engineVars, pipeVars, statsVars, codecVars, queueVars, batchVars, lifecycleVars, helperVars, sessionVars, handleVars, routerVars, readerVars, teardownVars>>
nonHelperVars == <<engineVars, pipeVars, statsVars, codecVars, queueVars, batchVars, lifecycleVars, captureVars, sessionVars, handleVars, routerVars, readerVars, teardownVars>>
nonSessionVars == <<engineVars, pipeVars, statsVars, codecVars, queueVars, batchVars, lifecycleVars, captureVars, helperVars, handleVars, routerVars, readerVars, teardownVars>>
nonHandleVars == <<engineVars, pipeVars, statsVars, codecVars, queueVars, batchVars, lifecycleVars, captureVars, helperVars, sessionVars, routerVars, readerVars, teardownVars>>
nonRouterVars == <<engineVars, pipeVars, statsVars, codecVars, queueVars, batchVars, lifecycleVars, captureVars, helperVars, sessionVars, handleVars, readerVars, teardownVars>>
nonReaderVars == <<engineVars, pipeVars, statsVars, codecVars, queueVars, batchVars, lifecycleVars, captureVars, helperVars, sessionVars, handleVars, routerVars, teardownVars>>
nonTeardownVars == <<engineVars, pipeVars, statsVars, codecVars, queueVars, batchVars, lifecycleVars, captureVars, helperVars, sessionVars, handleVars, routerVars, readerVars>>

(***************************************************************************)
(* Character strings.  A std::string whose characters the code inspects is *)
(* a sequence of one-character strings.  A command is a record             *)
(* [text, pad]: the characters of text followed by pad copies of the       *)
(* filler character "z", so that a command of more than a thousand bytes   *)
(* is one value.  No string the code searches for contains "z", so a       *)
(* search in the command is a search in its text.                          *)
(***************************************************************************)
NPOS == -1

UpperChars == <<"A","B","C","D","E","F","G","H","I","J","K","L","M",
                "N","O","P","Q","R","S","T","U","V","W","X","Y","Z">>
LowerChars == <<"a","b","c","d","e","f","g","h","i","j","k","l","m",
                "n","o","p","q","r","s","t","u","v","w","x","y","z">>

\* ::tolower on one character
tolower(c) ==
    IF \E i \in 1..26 : UpperChars[i] = c
    THEN LowerChars[CHOOSE i \in 1..26 : UpperChars[i] = c]
    ELSE c

toupper(c) ==
    IF \E i \in 1..26 : LowerChars[i] = c
    THEN UpperChars[CHOOSE i \in 1..26 : LowerChars[i] = c]
    ELSE c

\* std::transform(..., ::tolower) over a whole string
to_lower(s) == [i \in 1..Len(s) |-> tolower(s[i])]

to_upper(s) == [i \in 1..Len(s) |-> toupper(s[i])]

\* std::string::find(p): the first 0-based position of p in s, or npos
Find(s, p) ==
    LET hits == {i \in 0..(Len(s) - Len(p)) : SubSeq(s, i + 1, i + Len(p)) = p}
    IN IF hits = {} THEN NPOS
       ELSE CHOOSE i \in hits : \A j \in hits : i <= j

Whitespace == {" ", "\t", "\n", "\r"}

\* std::string::find_first_not_of(" \t\n\r")
find_first_not_of_ws(s) ==
    LET hits == {i \in 1..Len(s) : s[i] \notin Whitespace}
    IN IF hits = {} THEN NPOS
       ELSE (CHOOSE i \in hits : \A j \in hits : i <= j) - 1

Cmd(t) == [text |-> t, pad |-> 0]

CmdLength(c) == Len(c.text) + c.pad

CmdEmpty(c) == CmdLength(c) = 0

CmdLower(c) == [text |-> to_lower(c.text), pad |-> c.pad]

CmdFind(c, p) == Find(c.text, p)

(***************************************************************************)
(* CommandExecutor: validation, sanitisation, execution.                   *)
(***************************************************************************)
MaxCommandLength == 1024

dangerous_prefixes ==
    { <<"e","d"," ">>, <<"e","b"," ">>, <<"e","w"," ">>, <<"e","q"," ">>,
      <<".","r","e","b","o","o","t">>, <<".","c","r","a","s","h">>,
      <<"!","p","r","o","c","e","s","s"," ","0"," ","7">>,
      <<".","d","e","t","a","c","h">>, <<".","k","i","l","l">>,
      <<"s","x","e">>, <<"s","x","d">> }

\* The same test without the conversion to lower case.
is_dangerous_command_CaseSensitive(command) ==
    \E prefix \in dangerous_prefixes : CmdFind(command, prefix) = 0

is_dangerous_command(command) ==
    LET lower_cmd == CmdLower(command)
    IN \E prefix \in dangerous_prefixes : CmdFind(lower_cmd, prefix) = 0

validate_command_syntax(command) ==
    IF CmdEmpty(command) THEN FALSE
    ELSE IF is_dangerous_command(command) THEN FALSE
    ELSE IF CmdLength(command) > MaxCommandLength THEN FALSE
    ELSE TRUE

\* [error, text]: ExecutionError and the sanitised command
sanitize_command(command) ==
    IF CmdFind(command, <<"r","m"," ">>) # NPOS
       \/ CmdFind(command, <<"d","e","l"," ">>) # NPOS
    THEN [error |-> "InvalidCommand", command |-> Cmd(<<>>)]
    ELSE [error |-> "None", command |-> command]

prepare_command(raw_command, env) ==
    IF ~env.session_manager
    THEN [error |-> "InternalError", command |-> Cmd(<<>>)]
    ELSE sanitize_command(raw_command)

\* WinDbgHelpers::execute_command_with_timeout as the engine sees it: the
\* debugger's verdict on this call is env.adapter, [hr_ok, output].
execute_windbg_command(command, env) ==
    IF env.adapter.hr_ok
    THEN [error |-> "None", output |-> env.adapter.output]
    ELSE [error |-> "CommandFailed", output |-> ""]

\* The CommandResult, the ExecutionError, the commands handed to the
\* debugger adapter, and which statistics update ran.
execute_command_internal(command, options, env) ==
    IF ~env.session_manager
    THEN [success |-> FALSE, output |-> "",
          error_message |-> "Session manager not available",
          error |-> "InternalError", adapter_calls |-> <<>>, stats |-> "none"]
    ELSE IF options.validate_command /\ ~validate_command_syntax(command)
    THEN [success |-> FALSE, output |-> "",
          error_message |-> "Invalid command syntax",
          error |-> "InvalidCommand", adapter_calls |-> <<>>, stats |-> "none"]
    ELSE LET prep == prepare_command(command, env)
         IN IF prep.error # "None"
            THEN [success |-> FALSE, output |-> "",
                  error_message |-> "Failed to prepare command",
                  error |-> prep.error, adapter_calls |-> <<>>,
                  stats |-> "none"]
            ELSE LET r == execute_windbg_command(prep.command, env)
                 IN IF r.error = "None"
                    THEN [success |-> TRUE, output |-> r.output,
                          error_message |-> "",
                          error |-> "None",
                          adapter_calls |-> <<prep.command>>,
                          stats |-> "success"]
                    ELSE [success |-> FALSE, output |-> "",
                          error_message |-> "Command execution failed",
                          error |-> r.error,
                          adapter_calls |-> <<prep.command>>,
                          stats |-> "failure"]

execute_command(command, options, env) ==
    execute_command_internal(command, options, env)

\* execute_with_retry from attempt on, calls being the adapter calls of the
\* attempts before.  It is private and nothing calls it.
RECURSIVE execute_with_retry_from(_, _, _, _, _)
execute_with_retry_from(attempt, calls_made, command, options, env) ==
    IF attempt > options.retry_count
    THEN [success |-> FALSE, output |-> "",
          error_message |-> "Command failed after retries",
          error |-> "Timeout", adapter_calls |-> calls_made, stats |-> "none"]
    ELSE LET result == execute_command_internal(command, options, env)
             all_calls == calls_made \o result.adapter_calls
         IN IF result.error = "None" \/ result.error # "Timeout"
            THEN [result EXCEPT !.adapter_calls = all_calls]
            ELSE execute_with_retry_from(attempt + 1, all_calls, command,
                                         options, env)

execute_with_retry(command, options, env) ==
    execute_with_retry_from(0, <<>>, command, options, env)

(***************************************************************************)
(* SpecEngine: execute_command applied once to an input drawn from a       *)
(* bounded set of command strings, options and surroundings.               *)
(***************************************************************************)
NonUtf8Output == "caf<E9> (bytes that are not valid UTF-8)"

AdapterOutputs == {"", "start end module name", NonUtf8Output}

\* What IDebugControl::Execute can do with one command: fail, or succeed
\* with the text the output callback captured.
AdapterOutcomes ==
    {[hr_ok |-> TRUE, output |-> o] : o \in AdapterOutputs}
    \cup {[hr_ok |-> FALSE, output |-> ""]}

EngineHeads ==
    dangerous_prefixes
    \cup { <<>>, <<"l","m">>, <<"e">>, <<"e","d">>, <<" ","e","d"," ">>,
           <<"k"," ">>, <<"d","t"," ">> }

EngineTails ==
    { <<>>, <<"1">>, <<"r","m"," ","1">>, <<"d","e","l"," ">>,
      <<"R","M"," ">> }

CaseModes == {"asis", "upper", "capital"}

ApplyCase(m, s) ==
    IF m = "upper" THEN to_upper(s)
    ELSE IF m = "capital" /\ Len(s) > 0
    THEN <<toupper(s[1])>> \o SubSeq(s, 2, Len(s))
    ELSE s

EngineTexts ==
    {ApplyCase(m, h) \o t : m \in CaseModes, h \in EngineHeads, t \in EngineTails}

\* Each text as it is, and padded to exactly the length limit and to one
\* byte more.
EngineCommands ==
    {[text |-> t, pad |-> p] :
        t \in EngineTexts,
        p \in {0, MaxCommandLength - 8, MaxCommandLength} }
    \cup {[text |-> t, pad |-> MaxCommandLength - Len(t)] : t \in EngineTexts}
    \cup {[text |-> t, pad |-> MaxCommandLength + 1 - Len(t)] : t \in EngineTexts}

NoResult ==
    [success |-> FALSE, output |-> "", error_message |-> "",
     error |-> "None", adapter_calls |-> <<>>, stats |-> "none"]

\* outlasts_timeout: whether the debugger takes longer over the command than
\* options.timeout.
NoEnv == [session_manager |-> TRUE, adapter |-> [hr_ok |-> TRUE, output |-> ""],
          outlasts_timeout |-> FALSE]

\* ExecutionOptions as constructed
DefaultOptions == [validate_command |-> TRUE, retry_count |-> 0]

\* The values of options.retry_count tried.
RetryCounts == {0, 2}

EngineIdle ==
    /\ e_pc = "idle"
    /\ e_cmd = Cmd(<<>>)
    /\ e_opt = DefaultOptions
    /\ e_env = NoEnv
    /\ e_res = NoResult

EngineInit ==
    /\ e_pc = "ready"
    /\ e_cmd \in EngineCommands
    /\ e_opt \in [validate_command : BOOLEAN, retry_count : RetryCounts]
    /\ e_env \in [session_manager : BOOLEAN, adapter : AdapterOutcomes,
                  outlasts_timeout : BOOLEAN]
    /\ e_res = NoResult

EngineExecute ==
    /\ e_pc = "ready"
    /\ e_res' = execute_command(e_cmd, e_opt, e_env)
    /\ e_pc' = "done"
    /\ UNCHANGED <<e_cmd, e_opt, e_env>>
    /\ UNCHANGED nonEngineVars

(***************************************************************************)
(* CommandUtils and CommandHandlers: the router between the controller's   *)
(* message handler and the engine.  A handler's result is the text it      *)
(* returns and the commands it handed to the debugger adapter.             *)
(***************************************************************************)
DANGEROUS_COMMANDS ==
    { <<"f","o","r","m","a","t">>, <<"d","e","l">>,
      <<"r","m","d","i","r">>, <<"e","r","a","s","e">>,
      <<"d","e","l","e","t","e">> }

is_command_safe(command) ==
    IF CmdEmpty(command)
       \/ (command.pad = 0 /\ find_first_not_of_ws(command.text) = NPOS)
    THEN FALSE
    ELSE LET lower_cmd == CmdLower(command)
         IN ~(\E dangerous \in DANGEROUS_COMMANDS :
                  CmdFind(lower_cmd, dangerous) # NPOS)

format_success_message(command, output) ==
    IF output = "" THEN "Command executed successfully" ELSE output

\* "Error in " + context + ": " + error, for context "command execution"
format_error_message_in_execution(error) ==
    CASE error = "" -> "Error in command execution: Unknown error"
      [] error = "Session manager not available" ->
             "Error in command execution: Session manager not available"
      [] error = "Invalid command syntax" ->
             "Error in command execution: Invalid command syntax"
      [] error = "Failed to prepare command" ->
             "Error in command execution: Failed to prepare command"
      [] error = "Command execution failed" ->
             "Error in command execution: Command execution failed"

\* The text handle_execute_command returns for the engine's result.
format_result(command, result) ==
    [threw |-> FALSE,
     text |-> IF result.error = "None" /\ result.success
              THEN format_success_message(command, result.output)
              ELSE format_error_message_in_execution(result.error_message),
     adapter_calls |-> result.adapter_calls]

\* [threw, text, adapter_calls]: whether the handler threw, the text it
\* returned, the commands it handed to the debugger adapter.
handle_execute_command(command, env) ==
    IF ~is_command_safe(command)
    THEN [threw |-> FALSE, text |-> "Error: Invalid or unsafe command",
          adapter_calls |-> <<>>]
    ELSE format_result(command, execute_command(command, DefaultOptions, env))

\* The commands try_route_to_specific_handler recognises by their first
\* word alone, each with the debugger command its typed handler emits.
TypedRoutes ==
    { [cmd |-> <<"k">>, emits |-> <<"k">>],
      [cmd |-> <<"k","n">>, emits |-> <<"k">>],
      [cmd |-> <<"k","l">>, emits |-> <<"k">>],
      [cmd |-> <<"k","p">>, emits |-> <<"k">>],
      [cmd |-> <<"k","v">>, emits |-> <<"k">>],
      [cmd |-> <<"~">>, emits |-> <<"~">>],
      [cmd |-> <<"!","p","r","o","c","e","s","s">>,
       emits |-> <<"!","p","r","o","c","e","s","s"," ","0"," ","0">>],
      [cmd |-> <<"!","p","r","o","c","e","s","s","e","s">>,
       emits |-> <<"!","p","r","o","c","e","s","s"," ","0"," ","0">>],
      [cmd |-> <<"l","m">>, emits |-> <<"l","m">>],
      [cmd |-> <<"!","m","o","d","u","l","e","s">>, emits |-> <<"l","m">>],
      [cmd |-> <<"r">>, emits |-> <<"r">>],
      [cmd |-> <<"r","e","g","i","s","t","e","r","s">>, emits |-> <<"r">>],
      [cmd |-> <<"g">>, emits |-> <<"g">>],
      [cmd |-> <<"g","o">>, emits |-> <<"g">>],
      [cmd |-> <<"p">>, emits |-> <<"p">>],
      [cmd |-> <<"s","t","e","p">>, emits |-> <<"p">>],
      [cmd |-> <<"t">>, emits |-> <<"t">>],
      [cmd |-> <<"t","r","a","c","e">>, emits |-> <<"t">>],
      [cmd |-> <<"g","u">>, emits |-> <<"g","u">>],
      [cmd |-> <<"s","t","e","p","o","u","t">>, emits |-> <<"g","u">>],
      [cmd |-> <<"g","h">>, emits |-> <<"g","h">>],
      [cmd |-> <<"g","n">>, emits |-> <<"g","n">>],
      [cmd |-> <<"b","l">>, emits |-> <<"b","l">>],
      [cmd |-> <<"b","r","e","a","k","p","o","i","n","t","s">>,
       emits |-> <<"b","l">>],
      [cmd |-> <<".","d","e","t","a","c","h">>,
       emits |-> <<".","d","e","t","a","c","h">>],
      [cmd |-> <<".","r","e","s","t","a","r","t">>,
       emits |-> <<".","r","e","s","t","a","r","t">>],
      [cmd |-> <<".","k","i","l","l">>, emits |-> <<".","k","i","l","l">>],
      [cmd |-> <<"!","a","n","a","l","y","z","e">>,
       emits |-> <<"!","a","n","a","l","y","z","e"," ","-","v">>] }

\* The first words whose routes parse a parameter (breakpoints, attach,
\* create, dump, memory display).
ParameterRoutes ==
    { <<"b","p">>, <<"b","r","e","a","k","p","o","i","n","t">>,
      <<"b","c">>, <<"c","l","e","a","r">>,
      <<"b","d">>, <<"d","i","s","a","b","l","e">>,
      <<"b","e">>, <<"e","n","a","b","l","e">>,
      <<".","a","t","t","a","c","h">>, <<".","c","r","e","a","t","e">>,
      <<".","d","u","m","p">>,
      <<"d","b">>, <<"d","d">>, <<"d","w">>, <<"d","q">> }

\* normalized_command.substr(first non-blank, last non-blank)
trim(s) ==
    LET keep == {i \in 1..Len(s) : s[i] \notin Whitespace}
    IN IF keep = {} THEN <<>>
       ELSE SubSeq(s, CHOOSE i \in keep : \A j \in keep : i <= j,
                      CHOOSE i \in keep : \A j \in keep : i >= j)

\* The first word of the normalised command: up to its first space.  A
\* padded command without a space runs on into its padding.
FirstWord(normalized) ==
    LET space_pos == Find(normalized.text, <<" ">>)
    IN IF space_pos # NPOS THEN SubSeq(normalized.text, 1, space_pos)
       ELSE IF normalized.pad > 0 THEN normalized.text \o <<"z">>
       ELSE normalized.text

\* params: what follows the first space of the normalised command
Params(normalized) ==
    LET space_pos == Find(normalized.text, <<" ">>)
    IN IF space_pos # NPOS
       THEN [text |-> SubSeq(normalized.text, space_pos + 2,
                             Len(normalized.text)),
             pad |-> normalized.pad]
       ELSE Cmd(<<>>)

HexDigits == <<"0","1","2","3","4","5","6","7","8","9",
               "a","b","c","d","e","f">>

HexDigitValue(c) == (CHOOSE i \in 1..16 : HexDigits[i] = tolower(c)) - 1

IsHexDigit(c) == \E i \in 1..16 : HexDigits[i] = tolower(c)

RECURSIVE HexValue(_)
HexValue(digits) ==
    IF digits = <<>> THEN 0
    ELSE 16 * HexValue(SubSeq(digits, 1, Len(digits) - 1))
         + HexDigitValue(digits[Len(digits)])

\* std::stoull(str, nullptr, 16) on "0x" followed by hexadecimal digits
stoull_16(str) == HexValue(SubSeq(str, 3, Len(str)))

RECURSIVE HexDigitsOf(_)
HexDigitsOf(value) ==
    IF value < 16 THEN <<HexDigits[value + 1]>>
    ELSE HexDigitsOf(value \div 16) \o <<HexDigits[(value % 16) + 1]>>

\* format_hex: "0x" << std::hex << value
format_hex(value) == <<"0","x">> \o HexDigitsOf(value)

\* The position after the longest run of characters of set from j on
RECURSIVE RunEnd(_, _, _)
RunEnd(s, j, set) ==
    IF j <= Len(s) /\ s[j] \in set THEN RunEnd(s, j + 1, set) ELSE j

HexChars == {s \in {"0","1","2","3","4","5","6","7","8","9",
                    "a","b","c","d","e","f","A","B","C","D","E","F"} : TRUE}

MemoryKinds == {<<"d","b">>, <<"d","d">>, <<"d","w">>, <<"d","q">>}

\* The letter that introduces the count in memory_regex
CountLetter_Lower == "l"

CountLetter == "L"

\* memory_regex matched at position i of s (1-based):
\* (db|dd|dw|dq)\s+(0x[0-9a-fA-F]+)(?:\s+L(0x[0-9a-fA-F]+))?
\* [matched, kind, address, has_count, count]
MemoryMatchAt(s, i) ==
    LET a == RunEnd(s, i + 2, Whitespace)
        h == RunEnd(s, a + 2, HexChars)
        b == RunEnd(s, h, Whitespace)
        e == RunEnd(s, b + 3, HexChars)
        head == /\ i + 1 <= Len(s)
                /\ SubSeq(s, i, i + 1) \in MemoryKinds
                /\ a > i + 2
                /\ a + 1 <= Len(s)
                /\ SubSeq(s, a, a + 1) = <<"0","x">>
                /\ h > a + 2
        tail == /\ head
                /\ b > h
                /\ b + 2 <= Len(s)
                /\ s[b] = CountLetter
                /\ SubSeq(s, b + 1, b + 2) = <<"0","x">>
                /\ e > b + 3
    IN IF ~head
       THEN [matched |-> FALSE, kind |-> <<>>, address |-> <<>>,
             has_count |-> FALSE, count |-> <<>>]
       ELSE [matched |-> TRUE, kind |-> SubSeq(s, i, i + 1),
             address |-> SubSeq(s, a, h - 1),
             has_count |-> tail,
             count |-> IF tail THEN SubSeq(s, b + 1, e - 1) ELSE <<>>]

\* std::regex_search(cmd_str, match, memory_regex): the leftmost match
memory_regex_search(s) ==
    LET hits == {i \in 1..Len(s) : MemoryMatchAt(s, i).matched}
    IN IF hits = {} THEN MemoryMatchAt(s, Len(s) + 1)
       ELSE MemoryMatchAt(s, CHOOSE i \in hits : \A j \in hits : i <= j)

DefaultMemorySize == 256

handle_read_memory(address, size, env) ==
    handle_execute_command(
        Cmd(<<"d","b"," ">> \o format_hex(address) \o <<" ","L">>
            \o format_hex(size)), env)

handle_display_memory(address, size, env) ==
    handle_execute_command(
        Cmd(<<"d","d"," ">> \o format_hex(address) \o <<" ","L">>
            \o format_hex(size \div 4)), env)

\* The handler try_parse_memory_command calls for a kind of command
memory_handler(cmd_type, address, size, env) ==
    CASE cmd_type = <<"d","b">> -> handle_read_memory(address, size, env)
      [] cmd_type = <<"d","d">> -> handle_display_memory(address, size, env)
      [] cmd_type = <<"d","w">> -> handle_display_memory(address, size * 2, env)
      [] cmd_type = <<"d","q">> -> handle_display_memory(address, size * 8, env)

\* The empty text stands for "parsing failed".
try_parse_memory_command(command, env) ==
    LET cmd_str == to_lower(command.text)
        match == memory_regex_search(cmd_str)
    IN IF match.matched
       THEN memory_handler(match.kind, stoull_16(match.address),
                           IF match.has_count THEN stoull_16(match.count)
                           ELSE DefaultMemorySize,
                           env)
       ELSE [threw |-> FALSE, text |-> "", adapter_calls |-> <<>>]

handle_create_process(process_path, env) ==
    handle_execute_command(
        [text |-> <<".","c","r","e","a","t","e"," ">> \o process_path.text,
         pad |-> process_path.pad], env)

\* The single-word routes, .create and the memory display family.  The
\* empty text stands for "no specific handler"; the other commands of
\* ParameterRoutes are outside this operator's domain.
try_route_to_specific_handler(normalized, original, env) ==
    LET cmd == FirstWord(normalized)
        params == Params(normalized)
        routes == {r \in TypedRoutes : r.cmd = cmd}
    IN IF routes # {}
       THEN handle_execute_command(Cmd((CHOOSE r \in routes : TRUE).emits), env)
       ELSE IF cmd = <<".","c","r","e","a","t","e">> /\ ~CmdEmpty(params)
       THEN handle_create_process(params, env)
       ELSE IF cmd \in MemoryKinds
       THEN try_parse_memory_command(original, env)
       ELSE [threw |-> FALSE, text |-> "", adapter_calls |-> <<>>]

\* The end of handle_generic_command: the routed result when there is
\* one, direct execution of the command as given otherwise.
routed_or_direct(routed_result, command, env) ==
    IF routed_result.text # "" THEN routed_result
    ELSE handle_execute_command(command, env)

\* substr throws std::out_of_range when the command has no character
\* other than white space.
handle_generic_command(command, env) ==
    IF command.pad = 0 /\ find_first_not_of_ws(command.text) = NPOS
    THEN [threw |-> TRUE, text |-> "", adapter_calls |-> <<>>]
    ELSE routed_or_direct(
             try_route_to_specific_handler(
                 [text |-> trim(to_lower(command.text)), pad |-> command.pad],
                 command, env),
             command, env)

handle_llm_command(command, env) == handle_generic_command(command, env)

(***************************************************************************)
(* MessageProtocol.  The bytes of one pipe message are a sequence of       *)
(* tokens: "json" is the text of a well-formed Command envelope carrying   *)
(* request_id and command, "text" is bytes that are not a complete JSON    *)
(* document, "delim" is the delimiter "\r\n\r\n".                          *)
(***************************************************************************)
JsonToken(id, command) == [t |-> "json", request_id |-> id, command |-> command]

TextToken == [t |-> "text", request_id |-> "", command |-> ""]

DelimToken == [t |-> "delim", request_id |-> "", command |-> ""]

\* The characters of the command strings that travel in envelopes.
Chars(str) ==
    CASE str = "" -> <<>>
      [] str = "lm" -> <<"l","m">>
      [] str = "ed 0x1000 0x41" ->
             <<"e","d"," ","0","x","1","0","0","0"," ","0","x","4","1">>

HasDelimiter(data) == \E i \in 1..Len(data) : data[i].t = "delim"

\* data.find(MESSAGE_DELIMITER): 1-based position of the first delimiter
DelimiterPos(data) ==
    CHOOSE i \in 1..Len(data) :
        data[i].t = "delim" /\ \A j \in 1..(i - 1) : data[j].t # "delim"

\* [error, json]: the text is cut at the first delimiter when there is
\* one, and parsed whole when there is none.
bytes_to_json(data) ==
    IF data = <<>> THEN [error |-> "InvalidMessage", json |-> TextToken]
    ELSE LET json_str == IF HasDelimiter(data)
                         THEN SubSeq(data, 1, DelimiterPos(data) - 1)
                         ELSE data
         IN IF Len(json_str) = 1 /\ json_str[1].t = "json"
            THEN [error |-> "None", json |-> json_str[1]]
            ELSE [error |-> "InvalidMessage", json |-> TextToken]

\* [error, request]: the CommandRequest of the envelope
parse_command(data) ==
    LET parsed == bytes_to_json(data)
    IN IF parsed.error # "None"
       THEN [error |-> parsed.error,
             request |-> [request_id |-> "", command |-> ""]]
       ELSE [error |-> "None",
             request |-> [request_id |-> parsed.json.request_id,
                          command |-> parsed.json.command]]

\* A message on its way to the client: a Response envelope with its
\* payload, or the Error envelope of the serialisation fallback, which has
\* no request_id.
NoRequestId == "<no request_id>"

Response(id, success, output, error_message) ==
    [type |-> "response", request_id |-> id, success |-> success,
     output |-> output, error_message |-> error_message]

\* json::dump() throws on a string that is not valid UTF-8; the catch-all
\* turns it into InvalidMessage.
serialize_response(response) ==
    IF response.output = NonUtf8Output
    THEN [error |-> "InvalidMessage", bytes |-> <<>>]
    ELSE [error |-> "None", bytes |-> <<response, DelimToken>>]

SerializationFallback ==
    <<[type |-> "error", request_id |-> NoRequestId, success |-> FALSE,
       output |-> "", error_message |-> "Failed to serialize response"],
      DelimToken>>

\* The same reply echoing an empty request_id.
ParseErrorResponse_EmptyId == Response("", FALSE, "", "Failed to parse command")

ParseErrorResponse == Response("unknown", FALSE, "", "Failed to parse command")

(***************************************************************************)
(* ExtensionImpl::handle_mcp_command, the handler the server calls.        *)
(* [response, error, adapter_calls]                                        *)
(***************************************************************************)
\* The same with the handler's text also reported as the error message.
mcp_response_MessageOnSuccess(request, h) ==
    IF h.threw
    THEN [response |-> Response(request.request_id, FALSE, "",
                          "Internal error during command processing"),
          error |-> "InternalError", adapter_calls |-> <<>>]
    ELSE IF h.text # ""
    THEN [response |-> Response(request.request_id, TRUE, h.text, h.text),
          error |-> "None", adapter_calls |-> h.adapter_calls]
    ELSE [response |-> Response(request.request_id, FALSE, "",
                  "Command execution failed or returned no output"),
          error |-> "CommandFailed", adapter_calls |-> h.adapter_calls]

\* The CommandResponse for what handle_llm_command did.
mcp_response(request, h) ==
    IF h.threw
    THEN [response |-> Response(request.request_id, FALSE, "",
                          "Internal error during command processing"),
          error |-> "InternalError", adapter_calls |-> <<>>]
    ELSE IF h.text # ""
    THEN [response |-> Response(request.request_id, TRUE, h.text, ""),
          error |-> "None", adapter_calls |-> h.adapter_calls]
    ELSE [response |-> Response(request.request_id, FALSE, "",
                  "Command execution failed or returned no output"),
          error |-> "CommandFailed", adapter_calls |-> h.adapter_calls]

handle_mcp_command(request, is_initialized, env) ==
    IF ~is_initialized
    THEN [response |-> Response(request.request_id, FALSE, "",
                                "Extension not initialized"),
          error |-> "ExtensionNotLoaded", adapter_calls |-> <<>>]
    ELSE mcp_response(request,
                      handle_llm_command(Cmd(Chars(request.command)), env))

\* NamedPipeServer::handle_command with message_handler_ set by
\* initialize_communication before start().
handle_command(request, is_initialized, env) ==
    handle_mcp_command(request, is_initialized, env)

(***************************************************************************)
(* The pipe server and its clients.  A pipe instance is named by the       *)
(* client connected to it.  The pipe is in message mode: one ReadFile      *)
(* returns one message, the bytes of one client write.                     *)
(***************************************************************************)
Clients == {"a", "b"}

NoHandle == "none"

\* The most pipe messages all clients together write in one run.
MaxChunks == 2

RequestIds == [a |-> <<"a1", "a2", "a3", "a4", "a5">>,
               b |-> <<"b1", "b2", "b3", "b4", "b5">>]

\* The commands a client sends: one the router knows, and a dangerous one
\* it does not.
PipeCommands == {"lm", "ed 0x1000 0x41"}

\* What one client write can be, given the request id it would carry: a
\* framed command, a command without its delimiter, part of a command, and
\* bytes that are no command followed by the delimiter.  Client "b" is a
\* well-behaved client: it writes framed commands only.
Chunks(c, id) ==
    IF c = "b" THEN { <<JsonToken(id, "lm"), DelimToken>> }
    ELSE { <<JsonToken(id, command), DelimToken>> : command \in PipeCommands }
         \cup { <<JsonToken(id, "lm")>>, <<TextToken>>,
                <<TextToken, DelimToken>> }

WellFormed(chunk) == Len(chunk) = 2 /\ chunk[1].t = "json" /\ chunk[2].t = "delim"

TotalSent == Len(sentLog["a"]) + Len(sentLog["b"])

\* What the debugger does with a command of a connection's worker.
PipeAdapterOutcomes ==
    { [hr_ok |-> TRUE, output |-> "start end module name"],
      [hr_ok |-> TRUE, output |-> NonUtf8Output],
      [hr_ok |-> FALSE, output |-> ""] }

Range(f) == {f[i] : i \in DOMAIN f}

\* NamedPipeServer::ServerStats as constructed
ServerStats == [total_connections |-> 0, active_connections |-> 0]

\* update_stats_on_connection
update_stats_on_connection(s) ==
    [s EXCEPT !.total_connections = @ + 1, !.active_connections = @ + 1]

PipeInit ==
    /\ running = FALSE
    /\ initialized = FALSE
    /\ spc = "constructed"
    /\ lpc = "none"
    /\ lh = NoHandle
    /\ connections = <<>>
    /\ active = [c \in Clients |-> FALSE]
    /\ wpc = [c \in Clients |-> "none"]
    /\ readers = {}
    /\ cur = [c \in Clients |-> <<>>]
    /\ lastRead = [c \in Clients |-> "none"]
    /\ cstate = [c \in Clients |-> "idle"]
    /\ sentLog = [c \in Clients |-> <<>>]
    /\ rd = [c \in Clients |-> 0]
    /\ outbox = [c \in Clients |-> <<>>]
    /\ server_stats = ServerStats

\* ---- the thread that initialises and shuts down the extension ----

\* start(): the listener thread is created ...
StartSpawn ==
    /\ spc = "constructed"
    /\ ~running
    /\ lpc' = "check"
    /\ spc' = "start_spawned"
    /\ UNCHANGED nonPipeVars
    /\ UNCHANGED server_stats
    /\ UNCHANGED <<running, initialized, lh, connections, active, wpc, readers,
                   cur, lastRead, cstate, sentLog, rd, outbox>>

\* ... and only then running_ is set.
StartSetRunning ==
    /\ spc = "start_spawned"
    /\ running' = TRUE
    /\ spc' = "started"
    /\ UNCHANGED nonPipeVars
    /\ UNCHANGED server_stats
    /\ UNCHANGED <<initialized, lpc, lh, connections, active, wpc, readers,
                   cur, lastRead, cstate, sentLog, rd, outbox>>

\* ExtensionImpl::initialize sets initialized_ after the server started.
InitializeDone ==
    /\ spc = "started"
    /\ initialized' = TRUE
    /\ spc' = "ready"
    /\ UNCHANGED nonPipeVars
    /\ UNCHANGED server_stats
    /\ UNCHANGED <<running, lpc, lh, connections, active, wpc, readers,
                   cur, lastRead, cstate, sentLog, rd, outbox>>

\* stop(): running_ is cleared ...
StopBegin ==
    /\ spc = "ready"
    /\ running
    /\ running' = FALSE
    /\ spc' = "stop_join_server"
    /\ UNCHANGED nonPipeVars
    /\ UNCHANGED server_stats
    /\ UNCHANGED <<initialized, lpc, lh, connections, active, wpc, readers,
                   cur, lastRead, cstate, sentLog, rd, outbox>>

\* ... the listener thread is joined ...
StopJoinServer ==
    /\ spc = "stop_join_server"
    /\ lpc = "exited"
    /\ spc' = "stop_join_clients"
    /\ UNCHANGED nonPipeVars
    /\ UNCHANGED server_stats
    /\ UNCHANGED <<running, initialized, lpc, lh, connections, active, wpc,
                   readers, cur, lastRead, cstate, sentLog, rd, outbox>>

\* The same with every connection erased, the active ones included.
cleanup_disconnected_connections_All(conns, act) ==
    SelectSeq(conns, LAMBDA h : FALSE)

\* cleanup_disconnected_connections under the exclusive lock
cleanup_disconnected_connections(conns, act) ==
    SelectSeq(conns, LAMBDA h : act[h])

\* ... every worker thread is joined, the thread list cleared, and the
\* inactive connections dropped; stop() returns.
StopJoinClients ==
    /\ spc = "stop_join_clients"
    /\ \A c \in Clients : wpc[c] \in {"none", "done"}
    /\ readers = {}
    /\ connections' = cleanup_disconnected_connections(connections, active)
    /\ spc' = "stopped"
    /\ UNCHANGED nonPipeVars
    /\ UNCHANGED server_stats
    /\ UNCHANGED <<running, initialized, lpc, lh, active, wpc, readers,
                   cur, lastRead, cstate, sentLog, rd, outbox>>

\* ExtensionImpl::shutdown after cleanup_communication returned
ShutdownDone ==
    /\ spc = "stopped"
    /\ initialized' = FALSE
    /\ spc' = "shut_down"
    /\ UNCHANGED nonPipeVars
    /\ UNCHANGED server_stats
    /\ UNCHANGED <<running, lpc, lh, connections, active, wpc, readers,
                   cur, lastRead, cstate, sentLog, rd, outbox>>

\* ---- the listener thread: server_loop ----

\* while (running_.load())
ListenerCheck ==
    /\ lpc = "check"
    /\ lpc' = IF running THEN "accept" ELSE "exited"
    /\ UNCHANGED nonPipeVars
    /\ UNCHANGED server_stats
    /\ UNCHANGED <<running, initialized, spc, lh, connections, active, wpc,
                   readers, cur, lastRead, cstate, sentLog, rd, outbox>>

\* create_pipe_instance, then ConnectNamedPipe blocks until a client
\* connects.  Clients arrive once the extension has finished loading.
ListenerAccept(c) ==
    /\ lpc = "accept"
    /\ initialized
    /\ cstate[c] = "idle"
    /\ cstate' = [cstate EXCEPT ![c] = "connected"]
    /\ lh' = c
    /\ lpc' = "register"
    /\ UNCHANGED nonPipeVars
    /\ UNCHANGED server_stats
    /\ UNCHANGED <<running, initialized, spc, connections, active, wpc,
                   readers, cur, lastRead, sentLog, rd, outbox>>

\* The ClientConnection is constructed active and pushed onto connections_
\* under the exclusive lock, which waits for every shared holder to leave;
\* the connection counters are incremented; then the worker thread is
\* created: client_threads_.emplace_back(handle_client_connection, pipe_handle).
ListenerRegister ==
    /\ lpc = "register"
    /\ readers = {}
    /\ connections' = Append(connections, lh)
    /\ server_stats' = update_stats_on_connection(server_stats)
    /\ active' = [active EXCEPT ![lh] = TRUE]
    /\ wpc' = [wpc EXCEPT ![lh] = "start"]
    /\ lh' = NoHandle
    /\ lpc' = "check"
    /\ UNCHANGED nonPipeVars
    /\ UNCHANGED <<running, initialized, spc, readers, cur, lastRead,
                   cstate, sentLog, rd, outbox>>

\* ---- a worker thread: handle_client_connection ----

\* The shared lock is taken and the connection looked up by its handle.
WorkerEnter(c) ==
    /\ wpc[c] = "start"
    /\ IF c \in Range(connections)
       THEN /\ readers' = readers \cup {c}
            /\ wpc' = [wpc EXCEPT ![c] = "loop"]
       ELSE /\ readers' = readers
            /\ wpc' = [wpc EXCEPT ![c] = "cleanup"]
    /\ UNCHANGED nonPipeVars
    /\ UNCHANGED server_stats
    /\ UNCHANGED <<running, initialized, spc, lpc, lh, connections, active,
                   cur, lastRead, cstate, sentLog, rd, outbox>>

\* What PeekNamedPipe finds on the connection's pipe.
OsPeek(c) ==
    IF rd[c] < Len(sentLog[c]) THEN "data"
    ELSE IF cstate[c] = "closed" THEN "broken"
    ELSE "empty"

\* The same with a broken pipe reported as "no data yet".
read_message_BrokenIsEmpty(c) ==
    IF ~active[c]
    THEN [error |-> "Disconnected", data |-> <<>>, active |-> active[c]]
    ELSE IF OsPeek(c) \in {"broken", "empty"}
    THEN [error |-> "None", data |-> <<>>, active |-> TRUE]
    ELSE [error |-> "None", data |-> sentLog[c][rd[c] + 1], active |-> TRUE]

\* ClientConnection::read_message: [error, data, active]
read_message(c) ==
    IF ~active[c]
    THEN [error |-> "Disconnected", data |-> <<>>, active |-> active[c]]
    ELSE IF OsPeek(c) = "broken"
    THEN [error |-> "Disconnected", data |-> <<>>, active |-> FALSE]
    ELSE IF OsPeek(c) = "empty"
    THEN [error |-> "None", data |-> <<>>, active |-> TRUE]
    ELSE [error |-> "None", data |-> sentLog[c][rd[c] + 1], active |-> TRUE]

\* One turn of the loop up to the read: the loop condition held, and
\* process_client_messages called read_message.
WorkerPoll(c) ==
    /\ wpc[c] = "loop"
    /\ running
    /\ active[c]
    /\ LET r == read_message(c)
       IN IF r.error # "None"
          THEN \* the error is returned; mark_inactive; break
               /\ active' = [active EXCEPT ![c] = FALSE]
               /\ readers' = readers \ {c}
               /\ wpc' = [wpc EXCEPT ![c] = "cleanup"]
               /\ UNCHANGED <<cur, rd>>
          ELSE IF r.data = <<>>
          THEN \* nothing to read: sleep and go round again
               UNCHANGED <<active, readers, wpc, cur, rd>>
          ELSE /\ cur' = [cur EXCEPT ![c] = r.data]
               /\ rd' = [rd EXCEPT ![c] = rd[c] + 1]
               /\ wpc' = [wpc EXCEPT ![c] = "reply"]
               /\ UNCHANGED <<active, readers>>
    /\ lastRead' = [lastRead EXCEPT
                      ![c] = IF OsPeek(c) = "empty" THEN @ ELSE OsPeek(c)]
    /\ UNCHANGED nonPipeVars
    /\ UNCHANGED server_stats
    /\ UNCHANGED <<running, initialized, spc, lpc, lh, connections, cstate,
                   sentLog, outbox>>

\* The loop condition fails: the shared lock is released.
WorkerLeave(c) ==
    /\ wpc[c] = "loop"
    /\ ~(running /\ active[c])
    /\ readers' = readers \ {c}
    /\ wpc' = [wpc EXCEPT ![c] = "cleanup"]
    /\ UNCHANGED nonPipeVars
    /\ UNCHANGED server_stats
    /\ UNCHANGED <<running, initialized, spc, lpc, lh, connections, active,
                   cur, lastRead, cstate, sentLog, rd, outbox>>

\* The bytes written for a response: its serialisation, or the fallback
\* Error message when it cannot be serialised.
response_bytes(ser) ==
    IF ser.error # "None" THEN SerializationFallback ELSE ser.bytes

\* [error, request] -> the bytes process_client_messages writes
reply_to(parsed, is_initialized, env) ==
    IF parsed.error # "None"
    THEN serialize_response(ParseErrorResponse).bytes
    ELSE response_bytes(serialize_response(
             handle_command(parsed.request, is_initialized, env).response))

\* What process_client_messages writes for the message it read, given
\* what the debugger does with the command.
ReplyBytes(data, is_initialized, env) ==
    reply_to(parse_command(data), is_initialized, env)

\* Every message a client can write.
AllChunks ==
    UNION { Chunks(c, RequestIds[c][k]) :
                c \in Clients, k \in 1..Len(RequestIds["a"]) }

\* ReplyBytes tabulated once over the messages, initialized_ and the
\* debugger's outcomes.
ReplyTable ==
    [data \in AllChunks, is_initialized \in BOOLEAN,
     adapter \in PipeAdapterOutcomes |->
        ReplyBytes(data, is_initialized,
                   [session_manager |-> TRUE, adapter |-> adapter])]

\* ClientConnection::write_message: WriteFile fails once the client closed
\* its end.
write_message(c) ==
    IF ~active[c] THEN "Disconnected"
    ELSE IF cstate[c] = "closed" THEN "Disconnected"
    ELSE "None"

\* The same step with the write left out.
WorkerReply_NoWrite(c) ==
    /\ wpc[c] = "reply"
    /\ wpc' = [wpc EXCEPT ![c] = "loop"]
    /\ cur' = [cur EXCEPT ![c] = <<>>]
    /\ UNCHANGED nonPipeVars
    /\ UNCHANGED server_stats
    /\ UNCHANGED <<running, initialized, spc, lpc, lh, connections, active,
                   readers, lastRead, cstate, sentLog, rd, outbox>>

\* The rest of process_client_messages: parse, handle, serialise, write.
WorkerReply(c) ==
    /\ wpc[c] = "reply"
    /\ \E adapter \in PipeAdapterOutcomes :
         LET bytes == ReplyTable[cur[c], initialized, adapter]
         IN IF write_message(c) = "None"
            THEN /\ outbox' = [outbox EXCEPT ![c] = Append(@, bytes[1])]
                 /\ wpc' = [wpc EXCEPT ![c] = "loop"]
                 /\ UNCHANGED <<active, readers>>
            ELSE \* the send error is returned; mark_inactive; break
                 /\ active' = [active EXCEPT ![c] = FALSE]
                 /\ readers' = readers \ {c}
                 /\ wpc' = [wpc EXCEPT ![c] = "cleanup"]
                 /\ UNCHANGED outbox
    /\ cur' = [cur EXCEPT ![c] = <<>>]
    /\ UNCHANGED nonPipeVars
    /\ UNCHANGED server_stats
    /\ UNCHANGED <<running, initialized, spc, lpc, lh, connections, lastRead,
                   cstate, sentLog, rd>>

\* cleanup_disconnected_connections at the end of the worker
WorkerCleanup(c) ==
    /\ wpc[c] = "cleanup"
    /\ readers = {}
    /\ connections' = cleanup_disconnected_connections(connections, active)
    /\ wpc' = [wpc EXCEPT ![c] = "done"]
    /\ UNCHANGED nonPipeVars
    /\ UNCHANGED server_stats
    /\ UNCHANGED <<running, initialized, spc, lpc, lh, active, readers, cur,
                   lastRead, cstate, sentLog, rd, outbox>>

\* ---- the clients ----

ClientSend(c) ==
    /\ cstate[c] = "connected"
    /\ TotalSent < MaxChunks
    /\ \E chunk \in Chunks(c, RequestIds[c][Len(sentLog[c]) + 1]) :
         sentLog' = [sentLog EXCEPT ![c] = Append(@, chunk)]
    /\ UNCHANGED nonPipeVars
    /\ UNCHANGED server_stats
    /\ UNCHANGED <<running, initialized, spc, lpc, lh, connections, active,
                   wpc, readers, cur, lastRead, cstate, rd, outbox>>

ClientClose(c) ==
    /\ cstate[c] = "connected"
    /\ cstate' = [cstate EXCEPT ![c] = "closed"]
    /\ UNCHANGED nonPipeVars
    /\ UNCHANGED server_stats
    /\ UNCHANGED <<running, initialized, spc, lpc, lh, connections, active,
                   wpc, readers, cur, lastRead, sentLog, rd, outbox>>

(***************************************************************************)
(* SpecStats: the engine's statistics.  Threads call execute_command       *)
(* concurrently (the pipe workers and the engine's own worker threads all  *)
(* end in execute_command_internal); any thread may call get_stats or      *)
(* reset_stats.  stats_ is only touched under stats_mutex_.                *)
(***************************************************************************)
Threads == {"t1", "t2"}

NoThread == "none"

\* The most calls of execute_command in one run.
MaxCalls == 4

\* ExecutorStats as constructed
ExecutorStats ==
    [total_commands_executed |-> 0, successful_commands |-> 0,
     failed_commands |-> 0, timed_out_commands |-> 0]

\* A command the engine runs, one it rejects in validation, and one that
\* passes validation and fails sanitisation.
StatsCommands ==
    { Cmd(<<"l","m">>), Cmd(<<"e","d"," ","1">>), Cmd(<<"r","m"," ","1">>) }

StatsAdapterOutcomes ==
    { [hr_ok |-> TRUE, output |-> "start end module name"],
      [hr_ok |-> FALSE, output |-> ""] }

StatsInit ==
    /\ stats_ = ExecutorStats
    /\ stats_mutex = NoThread
    /\ t_pc = [t \in Threads |-> "idle"]
    /\ t_res = [t \in Threads |-> NoResult]
    /\ snapshot = ExecutorStats
    /\ calls = 0

\* execute_command_internal up to the point where it either returns early
\* or has the adapter's answer in hand.
ExecuteCall(t) ==
    /\ t_pc[t] = "idle"
    /\ calls < MaxCalls
    /\ \E command \in StatsCommands, adapter \in StatsAdapterOutcomes :
         t_res' = [t_res EXCEPT ![t] =
                     execute_command(command, DefaultOptions,
                         [session_manager |-> TRUE, adapter |-> adapter])]
    /\ t_pc' = [t_pc EXCEPT ![t] = "run"]
    /\ calls' = calls + 1
    /\ UNCHANGED <<stats_, stats_mutex, snapshot>>
    /\ UNCHANGED nonStatsVars

\* return result: the early returns of execute_command_internal
ExecuteReturnEarly(t) ==
    /\ t_pc[t] = "run"
    /\ t_res[t].stats = "none"
    /\ t_pc' = [t_pc EXCEPT ![t] = "idle"]
    /\ UNCHANGED <<stats_, stats_mutex, t_res, snapshot, calls>>
    /\ UNCHANGED nonStatsVars

\* update_stats_on_success / update_stats_on_failure: lock_guard
StatsLock(t) ==
    /\ t_pc[t] = "run"
    /\ t_res[t].stats # "none"
    /\ stats_mutex = NoThread
    /\ stats_mutex' = t
    /\ t_pc' = [t_pc EXCEPT ![t] = "locked"]
    /\ UNCHANGED <<stats_, t_res, snapshot, calls>>
    /\ UNCHANGED nonStatsVars

\* stats_.total_commands_executed++
StatsIncTotal(t) ==
    /\ t_pc[t] = "locked"
    /\ stats_' = [stats_ EXCEPT !.total_commands_executed = @ + 1]
    /\ t_pc' = [t_pc EXCEPT ![t] = "counted"]
    /\ UNCHANGED <<stats_mutex, t_res, snapshot, calls>>
    /\ UNCHANGED nonStatsVars

\* The second increment of update_stats_on_success
update_stats_on_success(s) ==
    [s EXCEPT !.successful_commands = @ + 1]

\* The rest of update_stats_on_failure
update_stats_on_failure(s, error) ==
    [s EXCEPT !.failed_commands = @ + 1,
              !.timed_out_commands = IF error = "Timeout" THEN @ + 1 ELSE @]

\* The counter of the outcome is incremented, the lock released, and
\* execute_command_internal returns the result.
StatsIncKind(t) ==
    /\ t_pc[t] = "counted"
    /\ stats_' = IF t_res[t].stats = "success"
                 THEN update_stats_on_success(stats_)
                 ELSE update_stats_on_failure(stats_, t_res[t].error)
    /\ stats_mutex' = NoThread
    /\ t_pc' = [t_pc EXCEPT ![t] = "idle"]
    /\ UNCHANGED <<t_res, snapshot, calls>>
    /\ UNCHANGED nonStatsVars

\* The same without taking stats_mutex_.
get_stats_NoLock ==
    /\ snapshot' = stats_
    /\ UNCHANGED <<stats_, stats_mutex, t_pc, t_res, calls>>
    /\ UNCHANGED nonStatsVars

\* get_stats: a copy of stats_ taken under the lock
get_stats ==
    /\ stats_mutex = NoThread
    /\ snapshot' = stats_
    /\ UNCHANGED <<stats_, stats_mutex, t_pc, t_res, calls>>
    /\ UNCHANGED nonStatsVars

\* reset_stats: stats_ = ExecutorStats{} under the lock
reset_stats ==
    /\ stats_mutex = NoThread
    /\ stats_' = ExecutorStats
    /\ UNCHANGED <<stats_mutex, t_pc, t_res, snapshot, calls>>
    /\ UNCHANGED nonStatsVars

(***************************************************************************)
(* MessageProtocol field by field.  A std::string is a [text, pad] record  *)
(* as above; InvalidByte stands for a byte that is not valid UTF-8.  A     *)
(* JSON document is the record of the keys it has and their values: keys   *)
(* it lacks hold a filler value.  A byte buffer is a sequence of tokens    *)
(* [t, doc]: the dump of a document, bytes that are no JSON text, and the  *)
(* delimiter; bytes_to_json above frames and parses it.  A time_point of   *)
(* steady_clock counts nanoseconds.  bytes_to_json, parse_command and      *)
(* serialize_response above are these operations restricted to the         *)
(* messages of the pipe model.                                             *)
(***************************************************************************)
PROTOCOL_VERSION == 1

MAX_MESSAGE_SIZE == 1024 * 1024

\* steady_clock::duration per std::chrono::milliseconds
NanosPerMilli == 1000000

InvalidByte == "<E9>"

is_valid_utf8(str) == \A i \in 1..Len(str.text) : str.text[i] # InvalidByte

\* static_cast<uint8_t>(MessageType)
MessageType == [Command |-> 1, Response |-> 2, Error |-> 3, Heartbeat |-> 4]

\* static_cast<uint32_t>(ErrorCode)
ErrorCode ==
    [None |-> 0, InvalidMessage |-> 1, CommandFailed |-> 2, Timeout |-> 3,
     ConnectionLost |-> 4, InvalidParameter |-> 5, UnknownCommand |-> 6,
     ExtensionNotLoaded |-> 7, SymbolLoadError |-> 8, MemoryAccessError |-> 9,
     ProcessNotFound |-> 10, ThreadError |-> 11, BreakpointError |-> 12,
     StackError |-> 13, ModuleError |-> 14, DebuggingContextError |-> 15,
     InternalError |-> 16, AlreadyStarted |-> 17, ClientNotFound |-> 18,
     ClientNotConnected |-> 19, SendFailed |-> 20, HandlerException |-> 21,
     PipeCreationFailed |-> 22]

\* static_cast<uint8_t>(ErrorCategory)
ErrorCategory ==
    [Unknown |-> 0, UserInput |-> 1, System |-> 2, Communication |-> 3,
     Process |-> 4, Memory |-> 5, Symbol |-> 6, Extension |-> 7,
     Timeout |-> 8]

\* The name of the enumerator with a value
NameOf(enum, value) == CHOOSE n \in DOMAIN enum : enum[n] = value

\* ErrorMessage::details: null, or the object {"context": context}
NullDetails == [is_null |-> TRUE, context |-> Cmd(<<>>)]

\* The structs as default-constructed
DefaultCommandRequest ==
    [request_id |-> Cmd(<<>>), command |-> Cmd(<<>>), parameters |-> "null",
     timeout |-> 30000, timestamp |-> 0]

DefaultCommandResponse ==
    [request_id |-> Cmd(<<>>), success |-> FALSE, output |-> Cmd(<<>>),
     error_message |-> Cmd(<<>>), execution_time |-> 0,
     session_data |-> "null", timestamp |-> 0]

DefaultErrorMessage ==
    [request_id |-> [has_value |-> FALSE, value |-> Cmd(<<>>)],
     error_code |-> "None", category |-> "Unknown",
     error_message |-> Cmd(<<>>), suggestion |-> Cmd(<<>>),
     details |-> NullDetails, timestamp |-> 0]

DefaultHeartbeatMessage == [session_info |-> "null", timestamp |-> 0]

\* A payload object without keys
EmptyPayload ==
    [keys |-> {}, type |-> "", request_id |-> Cmd(<<>>),
     command |-> Cmd(<<>>), parameters |-> "null", timeout_ms |-> 0,
     timestamp |-> 0, success |-> FALSE, output |-> Cmd(<<>>),
     error_message |-> Cmd(<<>>), execution_time_ms |-> 0,
     session_data |-> "null", error_code |-> 0, category |-> 0,
     suggestion |-> Cmd(<<>>), details |-> NullDetails,
     session_info |-> "null"]

\* full_message = {protocol_version, message_type, payload}
Envelope(type, message_json) ==
    [keys |-> {"protocol_version", "message_type", "payload"},
     protocol_version |-> PROTOCOL_VERSION,
     message_type |-> MessageType[type],
     payload |-> message_json]

\* A document without keys
EmptyDocument ==
    [keys |-> {}, protocol_version |-> 0, message_type |-> 0,
     payload |-> EmptyPayload]

JsonText(doc) == [t |-> "json", doc |-> doc]

NotJson == [t |-> "text", doc |-> EmptyDocument]

MESSAGE_DELIMITER == [t |-> "delim", doc |-> EmptyDocument]

\* json::dump() throws on a string that is not valid UTF-8.
dump_throws(doc) ==
    \E k \in doc.payload.keys \cap
             {"request_id", "command", "output", "error_message",
              "suggestion"} :
        ~is_valid_utf8(doc.payload[k])

\* [error, bytes]: the tail every serialize_* shares: dump, append the
\* delimiter; the catch-all turns a throw into InvalidMessage.
dump_and_delimit(full_message) ==
    IF dump_throws(full_message)
    THEN [error |-> "InvalidMessage", bytes |-> <<>>]
    ELSE [error |-> "None",
          bytes |-> <<JsonText(full_message), MESSAGE_DELIMITER>>]

\* duration_cast<milliseconds>(time_point.time_since_epoch()).count()
to_millis(time_point) == time_point \div NanosPerMilli

\* steady_clock::time_point(std::chrono::milliseconds(ms))
from_millis(ms) == ms * NanosPerMilli

serialize_command(request) ==
    dump_and_delimit(Envelope("Command",
        [EmptyPayload EXCEPT
            !.keys = {"type", "request_id", "command", "parameters",
                      "timeout_ms", "timestamp"},
            !.type = "command",
            !.request_id = request.request_id,
            !.command = request.command,
            !.parameters = request.parameters,
            !.timeout_ms = request.timeout,
            !.timestamp = to_millis(request.timestamp)]))

MessageProtocol_serialize_response(response) ==
    dump_and_delimit(Envelope("Response",
        [EmptyPayload EXCEPT
            !.keys = {"type", "request_id", "success", "output",
                      "error_message", "execution_time_ms", "session_data",
                      "timestamp"},
            !.type = "response",
            !.request_id = response.request_id,
            !.success = response.success,
            !.output = response.output,
            !.error_message = response.error_message,
            !.execution_time_ms = response.execution_time,
            !.session_data = response.session_data,
            !.timestamp = to_millis(response.timestamp)]))

serialize_error(error_msg) ==
    dump_and_delimit(Envelope("Error",
        [EmptyPayload EXCEPT
            !.keys = {"type", "error_code", "category", "error_message",
                      "suggestion", "details", "timestamp"}
                     \cup (IF error_msg.request_id.has_value
                           THEN {"request_id"} ELSE {}),
            !.type = "error",
            !.error_code = ErrorCode[error_msg.error_code],
            !.category = ErrorCategory[error_msg.category],
            !.error_message = error_msg.error_message,
            !.suggestion = error_msg.suggestion,
            !.details = error_msg.details,
            !.timestamp = to_millis(error_msg.timestamp),
            !.request_id = error_msg.request_id.value]))

serialize_heartbeat(heartbeat) ==
    dump_and_delimit(Envelope("Heartbeat",
        [EmptyPayload EXCEPT
            !.keys = {"type", "session_info", "timestamp"},
            !.type = "heartbeat",
            !.session_info = heartbeat.session_info,
            !.timestamp = to_millis(heartbeat.timestamp)]))

\* payload.contains(key) ? payload[key] : the value the struct has
value_or(payload, key, default) ==
    IF key \in payload.keys THEN payload[key] ELSE default

\* The timestamp every parse_* extracts: the payload's, or now()
parsed_timestamp(payload, now) ==
    IF "timestamp" \in payload.keys
    THEN from_millis(payload.timestamp) ELSE now

\* [error, value]
MessageProtocol_parse_command(data, now) ==
    LET parsed == bytes_to_json(data)
    IN IF parsed.error # "None"
       THEN [error |-> parsed.error, value |-> DefaultCommandRequest]
       ELSE IF ~({"protocol_version", "message_type", "payload"}
                    \subseteq parsed.json.doc.keys)
       THEN [error |-> "InvalidMessage", value |-> DefaultCommandRequest]
       ELSE IF ~({"request_id", "command"}
                    \subseteq parsed.json.doc.payload.keys)
       THEN [error |-> "InvalidMessage", value |-> DefaultCommandRequest]
       ELSE [error |-> "None",
             value |->
               [request_id |-> parsed.json.doc.payload.request_id,
                command |-> parsed.json.doc.payload.command,
                parameters |-> value_or(parsed.json.doc.payload,
                                        "parameters", "null"),
                timeout |-> value_or(parsed.json.doc.payload,
                                     "timeout_ms", 30000),
                timestamp |-> parsed_timestamp(parsed.json.doc.payload,
                                               now)]]

parse_response(data, now) ==
    LET parsed == bytes_to_json(data)
    IN IF parsed.error # "None"
       THEN [error |-> parsed.error, value |-> DefaultCommandResponse]
       ELSE IF "payload" \notin parsed.json.doc.keys
       THEN [error |-> "InvalidMessage", value |-> DefaultCommandResponse]
       ELSE [error |-> "None",
             value |->
               [request_id |-> value_or(parsed.json.doc.payload,
                                        "request_id", Cmd(<<>>)),
                success |-> value_or(parsed.json.doc.payload,
                                     "success", FALSE),
                output |-> value_or(parsed.json.doc.payload,
                                    "output", Cmd(<<>>)),
                error_message |-> value_or(parsed.json.doc.payload,
                                           "error_message", Cmd(<<>>)),
                execution_time |-> value_or(parsed.json.doc.payload,
                                            "execution_time_ms", 0),
                session_data |-> value_or(parsed.json.doc.payload,
                                          "session_data", "null"),
                timestamp |-> parsed_timestamp(parsed.json.doc.payload,
                                               now)]]

parse_error(data, now) ==
    LET parsed == bytes_to_json(data)
    IN IF parsed.error # "None"
       THEN [error |-> parsed.error, value |-> DefaultErrorMessage]
       ELSE IF "payload" \notin parsed.json.doc.keys
       THEN [error |-> "InvalidMessage", value |-> DefaultErrorMessage]
       ELSE [error |-> "None",
             value |->
               [request_id |->
                    [has_value |->
                         "request_id" \in parsed.json.doc.payload.keys,
                     value |-> value_or(parsed.json.doc.payload,
                                        "request_id", Cmd(<<>>))],
                error_code |->
                    NameOf(ErrorCode, value_or(parsed.json.doc.payload,
                                               "error_code", 0)),
                category |->
                    NameOf(ErrorCategory, value_or(parsed.json.doc.payload,
                                                   "category", 0)),
                error_message |-> value_or(parsed.json.doc.payload,
                                           "error_message", Cmd(<<>>)),
                suggestion |-> value_or(parsed.json.doc.payload,
                                        "suggestion", Cmd(<<>>)),
                details |-> value_or(parsed.json.doc.payload,
                                     "details", NullDetails),
                timestamp |-> parsed_timestamp(parsed.json.doc.payload,
                                               now)]]

parse_heartbeat(data, now) ==
    LET parsed == bytes_to_json(data)
    IN IF parsed.error # "None"
       THEN [error |-> parsed.error, value |-> DefaultHeartbeatMessage]
       ELSE IF "payload" \notin parsed.json.doc.keys
       THEN [error |-> "InvalidMessage", value |-> DefaultHeartbeatMessage]
       ELSE [error |-> "None",
             value |->
               [session_info |-> value_or(parsed.json.doc.payload,
                                          "session_info", "null"),
                timestamp |-> parsed_timestamp(parsed.json.doc.payload,
                                               now)]]

validate_message_size(size) == size > 0 /\ size <= MAX_MESSAGE_SIZE

classify_error(error_code) ==
    CASE error_code \in {"InvalidParameter", "UnknownCommand"} -> "UserInput"
      [] error_code \in {"Timeout", "ConnectionLost"} -> "Communication"
      [] error_code \in {"ProcessNotFound", "ThreadError"} -> "Process"
      [] error_code = "MemoryAccessError" -> "Memory"
      [] error_code = "SymbolLoadError" -> "Symbol"
      [] error_code = "ExtensionNotLoaded" -> "Extension"
      [] OTHER -> "System"

get_error_suggestion(error_code) ==
    Cmd(CASE error_code = "InvalidMessage" ->
                <<"C","h","e","c","k"," ","m","e","s","s","a","g","e",
                  " ","f","o","r","m","a","t"," ","a","n","d"," ","e",
                  "n","s","u","r","e"," ","i","t"," ","f","o","l","l",
                  "o","w","s"," ","t","h","e"," ","p","r","o","t","o",
                  "c","o","l"," ","s","p","e","c","i","f","i","c","a",
                  "t","i","o","n">>
          [] error_code = "CommandFailed" ->
                <<"V","e","r","i","f","y"," ","t","h","e"," ","c","o",
                  "m","m","a","n","d"," ","s","y","n","t","a","x"," ",
                  "a","n","d"," ","t","r","y"," ","a","g","a","i",
                  "n">>
          [] error_code = "Timeout" ->
                <<"I","n","c","r","e","a","s","e"," ","t","i","m","e",
                  "o","u","t"," ","v","a","l","u","e"," ","o","r"," ",
                  "c","h","e","c","k"," ","i","f"," ","t","h","e"," ",
                  "t","a","r","g","e","t"," ","i","s"," ","r","e","s",
                  "p","o","n","s","i","v","e">>
          [] error_code = "ExtensionNotLoaded" ->
                <<"L","o","a","d"," ","t","h","e"," ","V","i","b","e",
                  "D","b","g"," ","e","x","t","e","n","s","i","o","n",
                  " ","f","i","r","s","t"," ","u","s","i","n","g"," ",
                  "t","h","e"," ","v","i","b","e","d","b","g","_","c",
                  "o","n","n","e","c","t"," ","c","o","m","m","a","n",
                  "d">>
          [] error_code = "ProcessNotFound" ->
                <<"E","n","s","u","r","e"," ","t","h","e"," ","t","a",
                  "r","g","e","t"," ","p","r","o","c","e","s","s"," ",
                  "i","s"," ","r","u","n","n","i","n","g"," ","a","n",
                  "d"," ","a","c","c","e","s","s","i","b","l","e">>
          [] error_code = "MemoryAccessError" ->
                <<"C","h","e","c","k"," ","m","e","m","o","r","y"," ",
                  "a","d","d","r","e","s","s","e","s"," ","a","n","d",
                  " ","p","e","r","m","i","s","s","i","o","n","s">>
          [] OTHER ->
                <<"C","h","e","c","k"," ","t","h","e"," ","l","o","g",
                  "s"," ","f","o","r"," ","m","o","r","e"," ","d","e",
                  "t","a","i","l","e","d"," ","e","r","r","o","r"," ",
                  "i","n","f","o","r","m","a","t","i","o","n">>)

create_error_message(request_id, error_code, message, context, now) ==
    [request_id |-> [has_value |-> TRUE, value |-> request_id],
     error_code |-> error_code,
     category |-> classify_error(error_code),
     error_message |-> message,
     suggestion |-> get_error_suggestion(error_code),
     details |-> IF CmdEmpty(context) THEN NullDetails
                 ELSE [is_null |-> FALSE, context |-> context],
     timestamp |-> now]

(***************************************************************************)
(* The size in bytes of what dump() writes: compact JSON, every key        *)
(* quoted and followed by a colon, members separated by commas.            *)
(***************************************************************************)
RECURSIVE escaped_length(_)
escaped_length(text) ==
    IF text = <<>> THEN 0
    ELSE (IF Head(text) \in {"\r", "\n", "\t", "\"", "\\"} THEN 2 ELSE 1)
         + escaped_length(Tail(text))

\* A string value with its quotes
string_size(str) == 2 + escaped_length(str.text) + str.pad

RECURSIVE number_size(_)
number_size(n) == IF n < 10 THEN 1 ELSE 1 + number_size(n \div 10)

RECURSIVE members_size(_, _)
members_size(keys, size_of) ==
    IF keys = {} THEN 0
    ELSE LET k == CHOOSE x \in keys : TRUE
         IN Len(k) + 3 + size_of[k] + members_size(keys \ {k}, size_of)

\* The braces, the members, and the commas between them
object_size(keys, size_of) ==
    2 + members_size(keys, size_of)
      + (IF keys = {} THEN 0 ELSE Cardinality(keys) - 1)

payload_value_size(payload, key) ==
    CASE key \in {"request_id", "command", "output", "error_message",
                  "suggestion"} -> string_size(payload[key])
      [] key = "type" -> 2 + Len(payload.type)
      [] key \in {"timeout_ms", "timestamp", "execution_time_ms",
                  "error_code", "category"} -> number_size(payload[key])
      [] key = "success" -> IF payload.success THEN 4 ELSE 5
      [] key \in {"parameters", "session_data", "session_info"} ->
             Len(payload[key])
      [] key = "details" ->
             IF payload.details.is_null THEN 4
             ELSE 12 + string_size(payload.details.context)

payload_size(payload) ==
    object_size(payload.keys,
                [k \in payload.keys |-> payload_value_size(payload, k)])

dump_size(doc) ==
    object_size(doc.keys,
        [k \in doc.keys |->
            CASE k = "protocol_version" -> number_size(doc.protocol_version)
              [] k = "message_type" -> number_size(doc.message_type)
              [] k = "payload" -> payload_size(doc.payload)])

\* Bytes that are no JSON text: "not json"
NotJsonSize == 8

\* MESSAGE_DELIMITER.size()
DelimiterSize == 4

RECURSIVE buffer_size(_)
buffer_size(bytes) ==
    IF bytes = <<>> THEN 0
    ELSE (CASE Head(bytes).t = "json" -> dump_size(Head(bytes).doc)
            [] Head(bytes).t = "delim" -> DelimiterSize
            [] OTHER -> NotJsonSize)
         + buffer_size(Tail(bytes))

(***************************************************************************)
(* SpecCodec: a message is serialised and the bytes parsed, or a raw byte  *)
(* buffer is parsed, by each of the parse operations.                      *)
(***************************************************************************)
\* steady_clock readings: the epoch, a whole number of milliseconds, and
\* one nanosecond later.
CodecTimes == {0, 2 * NanosPerMilli, 2 * NanosPerMilli + 1}

\* Strings to carry: plain, holding the delimiter's characters, not valid
\* UTF-8, and long ones around the size limit.
CodecStrings ==
    { Cmd(<<"l","m">>), Cmd(<<"\r","\n","\r","\n">>), Cmd(<<InvalidByte>>),
      [text |-> <<>>, pad |-> MAX_MESSAGE_SIZE - 512],
      [text |-> <<>>, pad |-> MAX_MESSAGE_SIZE] }

CodecRequestId == Cmd(<<"r","1">>)

CodecRequests ==
    { [request_id |-> CodecRequestId, command |-> c, parameters |-> p,
       timeout |-> to, timestamp |-> ts] :
         c \in CodecStrings, p \in {"null", "{}"}, to \in {30000, 5000},
         ts \in CodecTimes }

CodecResponses ==
    { [request_id |-> CodecRequestId, success |-> TRUE, output |-> o,
       error_message |-> Cmd(<<>>), execution_time |-> et,
       session_data |-> "null", timestamp |-> ts] :
         o \in CodecStrings, et \in {0, 15}, ts \in CodecTimes }
    \cup
    { [request_id |-> CodecRequestId, success |-> FALSE,
       output |-> Cmd(<<>>), error_message |-> m, execution_time |-> 0,
       session_data |-> "null", timestamp |-> ts] :
         m \in CodecStrings, ts \in CodecTimes }

\* An ErrorMessage filled in field by field, without a request_id.
CodecErrors ==
    { [DefaultErrorMessage EXCEPT
          !.error_code = "InternalError",
          !.error_message = Cmd(<<"f","a","i","l","e","d">>),
          !.timestamp = ts] : ts \in CodecTimes }

CodecHeartbeats ==
    { [session_info |-> si, timestamp |-> ts] :
         si \in {"null", "{}"}, ts \in CodecTimes }

\* The arguments of create_error_message
CodecCreateInputs ==
    { [request_id |-> CodecRequestId, error_code |-> code,
       message |-> Cmd(<<"f","a","i","l","e","d">>), context |-> ctx,
       now |-> now] :
         code \in DOMAIN ErrorCode \ {"None"},
         ctx \in {Cmd(<<>>), Cmd(<<"l","m">>)},
         now \in {2 * NanosPerMilli} }

\* One well-formed document of each message type ...
SampleDocuments ==
    { serialize_command(
          [request_id |-> CodecRequestId, command |-> Cmd(<<"l","m">>),
           parameters |-> "null", timeout |-> 5000,
           timestamp |-> 0]).bytes[1].doc,
      MessageProtocol_serialize_response(
          [request_id |-> CodecRequestId, success |-> TRUE,
           output |-> Cmd(<<"l","m">>), error_message |-> Cmd(<<>>),
           execution_time |-> 15, session_data |-> "null",
           timestamp |-> 0]).bytes[1].doc,
      serialize_error(
          create_error_message(CodecRequestId, "CommandFailed",
              Cmd(<<"f","a","i","l","e","d">>), Cmd(<<>>),
              0)).bytes[1].doc,
      serialize_heartbeat(
          [session_info |-> "{}", timestamp |-> 0]).bytes[1].doc }

\* ... and the documents that lack one key of its envelope or one key of
\* its payload.
Lacking(doc) ==
    { [doc EXCEPT !.keys = @ \ {k}] : k \in doc.keys }
    \cup { [doc EXCEPT !.payload.keys = @ \ {k}] : k \in doc.payload.keys }

CodecDocuments ==
    SampleDocuments \cup UNION { Lacking(doc) : doc \in SampleDocuments }
    \cup {EmptyDocument}

\* Raw buffers: a document framed, unframed, followed by more bytes after
\* its delimiter, with bytes between it and the delimiter, twice; and
\* buffers without any JSON text.
CodecBuffers ==
    UNION { { <<JsonText(doc), MESSAGE_DELIMITER>>,
              <<JsonText(doc)>>,
              <<JsonText(doc), MESSAGE_DELIMITER, NotJson>>,
              <<JsonText(doc), NotJson, MESSAGE_DELIMITER>>,
              <<JsonText(doc), MESSAGE_DELIMITER,
                JsonText(doc), MESSAGE_DELIMITER>> } :
            doc \in CodecDocuments }
    \cup { <<>>, <<NotJson>>, <<NotJson, MESSAGE_DELIMITER>>,
           <<MESSAGE_DELIMITER>> }

NoMessage == [kind |-> "none", value |-> <<>>]

NoBytes == [error |-> "None", bytes |-> <<>>]

NoParsed == [parser |-> "none", error |-> "None", value |-> <<>>]

CodecIdle ==
    /\ k_pc = "idle"
    /\ k_msg = NoMessage
    /\ k_bytes = NoBytes
    /\ k_parsed = NoParsed

CodecInit ==
    /\ k_parsed = NoParsed
    /\ \/ /\ k_pc = "message"
          /\ k_bytes = NoBytes
          /\ \/ k_msg \in {[kind |-> "Command", value |-> r] :
                              r \in CodecRequests}
             \/ k_msg \in {[kind |-> "Response", value |-> r] :
                              r \in CodecResponses}
             \/ k_msg \in {[kind |-> "Error", value |-> r] :
                              r \in CodecErrors}
             \/ k_msg \in {[kind |-> "Heartbeat", value |-> r] :
                              r \in CodecHeartbeats}
       \/ /\ k_pc = "create"
          /\ k_bytes = NoBytes
          /\ k_msg \in {[kind |-> "create", value |-> r] :
                           r \in CodecCreateInputs}
       \/ /\ k_pc = "bytes"
          /\ k_msg = NoMessage
          /\ k_bytes \in {[error |-> "None", bytes |-> b] :
                             b \in CodecBuffers}

CreateErrorMessage ==
    /\ k_pc = "create"
    /\ k_msg' = [kind |-> "Error",
                 value |-> create_error_message(
                               k_msg.value.request_id,
                               k_msg.value.error_code, k_msg.value.message,
                               k_msg.value.context, k_msg.value.now)]
    /\ k_pc' = "message"
    /\ UNCHANGED <<k_bytes, k_parsed>>
    /\ UNCHANGED nonCodecVars

SerializeCommand ==
    /\ k_pc = "message"
    /\ k_msg.kind = "Command"
    /\ k_bytes' = serialize_command(k_msg.value)
    /\ k_pc' = "bytes"
    /\ UNCHANGED <<k_msg, k_parsed>>
    /\ UNCHANGED nonCodecVars

SerializeResponse ==
    /\ k_pc = "message"
    /\ k_msg.kind = "Response"
    /\ k_bytes' = MessageProtocol_serialize_response(k_msg.value)
    /\ k_pc' = "bytes"
    /\ UNCHANGED <<k_msg, k_parsed>>
    /\ UNCHANGED nonCodecVars

SerializeError ==
    /\ k_pc = "message"
    /\ k_msg.kind = "Error"
    /\ k_bytes' = serialize_error(k_msg.value)
    /\ k_pc' = "bytes"
    /\ UNCHANGED <<k_msg, k_parsed>>
    /\ UNCHANGED nonCodecVars

SerializeHeartbeat ==
    /\ k_pc = "message"
    /\ k_msg.kind = "Heartbeat"
    /\ k_bytes' = serialize_heartbeat(k_msg.value)
    /\ k_pc' = "bytes"
    /\ UNCHANGED <<k_msg, k_parsed>>
    /\ UNCHANGED nonCodecVars

\* The result of a parse operation, tagged with the operation
Parsed(parser, result) ==
    [parser |-> parser, error |-> result.error, value |-> result.value]

ParseCommand ==
    /\ k_pc = "bytes"
    /\ \E now \in CodecTimes :
         k_parsed' = Parsed("Command",
                            MessageProtocol_parse_command(k_bytes.bytes, now))
    /\ k_pc' = "parsed"
    /\ UNCHANGED <<k_msg, k_bytes>>
    /\ UNCHANGED nonCodecVars

ParseResponse ==
    /\ k_pc = "bytes"
    /\ \E now \in CodecTimes :
         k_parsed' = Parsed("Response", parse_response(k_bytes.bytes, now))
    /\ k_pc' = "parsed"
    /\ UNCHANGED <<k_msg, k_bytes>>
    /\ UNCHANGED nonCodecVars

ParseError ==
    /\ k_pc = "bytes"
    /\ \E now \in CodecTimes :
         k_parsed' = Parsed("Error", parse_error(k_bytes.bytes, now))
    /\ k_pc' = "parsed"
    /\ UNCHANGED <<k_msg, k_bytes>>
    /\ UNCHANGED nonCodecVars

ParseHeartbeat ==
    /\ k_pc = "bytes"
    /\ \E now \in CodecTimes :
         k_parsed' = Parsed("Heartbeat", parse_heartbeat(k_bytes.bytes, now))
    /\ k_pc' = "parsed"
    /\ UNCHANGED <<k_msg, k_bytes>>
    /\ UNCHANGED nonCodecVars

(***************************************************************************)
(* SpecQueue: the engine's asynchronous path.  execute_command_async puts  *)
(* a task on pending_tasks_; the two worker threads the constructor starts *)
(* take tasks off it and run them; cancel_all_pending empties it; the      *)
(* destructor stops the workers.  Every access to pending_tasks_ is made   *)
(* under tasks_mutex_, so each critical section is one step.  A task is    *)
(* named by the order of its submission.                                   *)
(***************************************************************************)
EngineWorkers == {"w1", "w2"}

\* The most tasks submitted in one run.
MaxTasks == 3

NoTask == 0

\* A command the engine hands to the debugger and one it rejects itself.
QueueCommands == { Cmd(<<"l","m">>), Cmd(<<"r","m"," ","1">>) }

QueueEnv == [session_manager |-> TRUE,
             adapter |-> [hr_ok |-> TRUE, output |-> "start end module name"]]

\* CommandExecutor's constructor: no task, two workers at the top of their
\* loop.
QueueInit ==
    /\ pending_tasks_ = <<>>
    /\ shutdown_requested_ = FALSE
    /\ worker_threads_ = EngineWorkers
    /\ qw_pc = [w \in EngineWorkers |-> "top"]
    /\ qw_task = [w \in EngineWorkers |-> NoTask]
    /\ q_tasks = [id \in 1..MaxTasks |->
                    [state |-> "none", command |-> Cmd(<<>>)]]

Submitted == {id \in 1..MaxTasks : q_tasks[id].state # "none"}

\* tasks_mutex_ is free.  Every critical section on it is one step, except
\* the worker's wait: tasks_cv_.wait(lock, pred) is
\* while (!pred()) wait(lock), and the worker still holds the lock between
\* finding the predicate false and going to sleep.
tasks_mutex_free == \A w \in EngineWorkers : qw_pc[w] # "blocking"

\* tasks_cv_.notify_one(): one of the sleeping workers, if there is one,
\* is made runnable
notify_one(pc) ==
    IF \E w \in EngineWorkers : pc[w] = "asleep"
    THEN {[pc EXCEPT ![w] = "wait"] : w \in {v \in EngineWorkers : pc[v] = "asleep"}}
    ELSE {pc}

\* tasks_cv_.notify_all()
notify_all(pc) ==
    [w \in EngineWorkers |-> IF pc[w] = "asleep" THEN "wait" ELSE pc[w]]

\* execute_command_async: pending_tasks_.push(...) under the lock, then
\* notify_one
execute_command_async ==
    /\ ~shutdown_requested_
    /\ Cardinality(Submitted) < MaxTasks
    /\ tasks_mutex_free
    /\ \E command \in QueueCommands :
         LET id == Cardinality(Submitted) + 1
         IN /\ pending_tasks_' = Append(pending_tasks_, id)
            /\ q_tasks' = [q_tasks EXCEPT ![id] =
                             [state |-> "pending", command |-> command]]
    /\ qw_pc' \in notify_one(qw_pc)
    /\ UNCHANGED <<shutdown_requested_, worker_threads_, qw_task>>
    /\ UNCHANGED nonQueueVars

\* The same loop stopped after one pop.
clear_queue_PopOnce(queue) ==
    IF queue = <<>> THEN queue ELSE Tail(queue)

\* while (!pending_tasks_.empty()) pending_tasks_.pop(): what is left
RECURSIVE clear_queue(_)
clear_queue(queue) ==
    IF queue = <<>> THEN queue ELSE clear_queue(Tail(queue))

\* cancel_all_pending.  The tasks popped are destroyed with their promises.
cancel_all_pending ==
    /\ tasks_mutex_free
    /\ pending_tasks_' = clear_queue(pending_tasks_)
    /\ q_tasks' = [id \in 1..MaxTasks |->
                     IF /\ \E i \in 1..Len(pending_tasks_) : pending_tasks_[i] = id
                        /\ ~\E i \in 1..Len(pending_tasks_') : pending_tasks_'[i] = id
                     THEN [q_tasks[id] EXCEPT !.state = "cancelled"]
                     ELSE q_tasks[id]]
    /\ UNCHANGED <<shutdown_requested_, worker_threads_, qw_pc, qw_task>>
    /\ UNCHANGED nonQueueVars

\* worker_thread_loop: while (!shutdown_requested_)
WorkerLoopTop(w) ==
    /\ qw_pc[w] = "top"
    /\ qw_pc' = [qw_pc EXCEPT ![w] =
                    IF shutdown_requested_ THEN "exited" ELSE "wait"]
    /\ UNCHANGED <<pending_tasks_, shutdown_requested_, worker_threads_,
                   qw_task, q_tasks>>
    /\ UNCHANGED nonQueueVars

\* worker_thread_loop: the lock is taken and the predicate of the wait is
\* false: the worker is about to sleep, the lock still in its hands
WorkerFindsNothing(w) ==
    /\ qw_pc[w] = "wait"
    /\ tasks_mutex_free
    /\ ~(pending_tasks_ # <<>> \/ shutdown_requested_)
    /\ qw_pc' = [qw_pc EXCEPT ![w] = "blocking"]
    /\ UNCHANGED <<pending_tasks_, shutdown_requested_, worker_threads_,
                   qw_task, q_tasks>>
    /\ UNCHANGED nonQueueVars

\* wait(lock): the lock is released and the worker sleeps, in one step
WorkerSleeps(w) ==
    /\ qw_pc[w] = "blocking"
    /\ qw_pc' = [qw_pc EXCEPT ![w] = "asleep"]
    /\ UNCHANGED <<pending_tasks_, shutdown_requested_, worker_threads_,
                   qw_task, q_tasks>>
    /\ UNCHANGED nonQueueVars

\* A condition variable may wake a sleeper that nobody notified.
SpuriousWakeup(w) ==
    /\ qw_pc[w] = "asleep"
    /\ qw_pc' = [qw_pc EXCEPT ![w] = "wait"]
    /\ UNCHANGED <<pending_tasks_, shutdown_requested_, worker_threads_,
                   qw_task, q_tasks>>
    /\ UNCHANGED nonQueueVars

\* worker_thread_loop: the lock is taken, the predicate of the wait is true,
\* and what follows under the lock
WorkerTake(w) ==
    /\ qw_pc[w] = "wait"
    /\ tasks_mutex_free
    /\ pending_tasks_ # <<>> \/ shutdown_requested_
    /\ IF shutdown_requested_ /\ pending_tasks_ = <<>>
       THEN /\ qw_pc' = [qw_pc EXCEPT ![w] = "exited"]
            /\ UNCHANGED <<pending_tasks_, qw_task, q_tasks>>
       ELSE /\ qw_task' = [qw_task EXCEPT ![w] = Head(pending_tasks_)]
            /\ pending_tasks_' = Tail(pending_tasks_)
            /\ q_tasks' = [q_tasks EXCEPT ![Head(pending_tasks_)].state = "taken"]
            /\ qw_pc' = [qw_pc EXCEPT ![w] = "task"]
    /\ UNCHANGED <<shutdown_requested_, worker_threads_>>
    /\ UNCHANGED nonQueueVars

\* task(): execute_command_internal up to the call of the debugger, or to
\* its end when the engine rejects the command itself.
WorkerRun(w) ==
    /\ qw_pc[w] = "task"
    /\ LET id == qw_task[w]
           r == execute_command_internal(q_tasks[id].command, DefaultOptions,
                                          QueueEnv)
       IN IF r.adapter_calls = <<>>
          THEN /\ q_tasks' = [q_tasks EXCEPT ![id].state = "completed"]
               /\ qw_task' = [qw_task EXCEPT ![w] = NoTask]
               /\ qw_pc' = [qw_pc EXCEPT ![w] = "top"]
          ELSE /\ q_tasks' = [q_tasks EXCEPT ![id].state = "running"]
               /\ qw_pc' = [qw_pc EXCEPT ![w] = "Execute"]
               /\ UNCHANGED qw_task
    /\ UNCHANGED <<pending_tasks_, shutdown_requested_, worker_threads_>>
    /\ UNCHANGED nonQueueVars

\* IDebugControl::Execute returns, execute_command_internal finishes, the
\* promise is set.
WorkerReturn(w) ==
    /\ qw_pc[w] = "Execute"
    /\ q_tasks' = [q_tasks EXCEPT ![qw_task[w]].state = "completed"]
    /\ qw_task' = [qw_task EXCEPT ![w] = NoTask]
    /\ qw_pc' = [qw_pc EXCEPT ![w] = "top"]
    /\ UNCHANGED <<pending_tasks_, shutdown_requested_, worker_threads_>>
    /\ UNCHANGED nonQueueVars

\* ~CommandExecutor, stop_worker_threads: shutdown_requested_ = true and
\* notify_all, neither under tasks_mutex_
StopWorkerThreads ==
    /\ ~shutdown_requested_
    /\ shutdown_requested_' = TRUE
    /\ qw_pc' = notify_all(qw_pc)
    /\ UNCHANGED <<pending_tasks_, worker_threads_, qw_task, q_tasks>>
    /\ UNCHANGED nonQueueVars

\* stop_worker_threads: thread.join() for each worker
JoinWorker(w) ==
    /\ shutdown_requested_
    /\ w \in worker_threads_
    /\ qw_pc[w] = "exited"
    /\ worker_threads_' = worker_threads_ \ {w}
    /\ UNCHANGED <<pending_tasks_, shutdown_requested_, qw_pc, qw_task, q_tasks>>
    /\ UNCHANGED nonQueueVars

(***************************************************************************)
(* SpecBatch: one call of execute_batch on a vector of commands drawn from *)
(* a bounded set, with or without a progress callback.  One step is one    *)
(* iteration of its loop.                                                  *)
(***************************************************************************)
\* The longest vector of commands.
MaxBatch == 3

\* BatchResult as constructed
BatchResult ==
    [results |-> <<>>, successful_commands |-> 0, failed_commands |-> 0,
     all_successful |-> FALSE]

BatchVectors ==
    UNION {[1..n -> StatsCommands] : n \in 0..MaxBatch}

BatchIdle ==
    /\ b_pc = "idle"
    /\ b_commands = <<>>
    /\ b_callback = FALSE
    /\ b_i = 0
    /\ batch_result = BatchResult
    /\ b_progress = <<>>
    /\ b_executed = <<>>

BatchInit ==
    /\ b_pc = "loop"
    /\ b_commands \in BatchVectors
    /\ b_callback \in BOOLEAN
    /\ b_i = 0
    /\ batch_result = BatchResult
    /\ b_progress = <<>>
    /\ b_executed = <<>>

\* The same with the index of the command instead of the count done.
progress_arguments_Index(i, commands) == <<i, Len(commands)>>

\* progress_callback(i + 1, commands.size())
progress_arguments(i, commands) == <<i + 1, Len(commands)>>

\* execute_batch: one iteration of the loop over commands (i counts from 0)
BatchIterate ==
    /\ b_pc = "loop"
    /\ b_i < Len(b_commands)
    /\ \E adapter \in StatsAdapterOutcomes :
         LET command == b_commands[b_i + 1]
             result == execute_command_internal(command, DefaultOptions,
                           [session_manager |-> TRUE, adapter |-> adapter])
         IN batch_result' =
              [batch_result EXCEPT
                 !.results = Append(@, [command_executed |-> command,
                                        success |-> result.success,
                                        error_message |-> result.error_message]),
                 !.successful_commands = IF result.success THEN @ + 1 ELSE @,
                 !.failed_commands = IF result.success THEN @ ELSE @ + 1]
    /\ b_executed' = Append(b_executed, b_commands[b_i + 1])
    /\ b_progress' = IF b_callback
                     THEN Append(b_progress, progress_arguments(b_i, b_commands))
                     ELSE b_progress
    /\ b_i' = b_i + 1
    /\ UNCHANGED <<b_pc, b_commands, b_callback>>
    /\ UNCHANGED nonBatchVars

\* execute_batch: after the loop
BatchReturn ==
    /\ b_pc = "loop"
    /\ ~(b_i < Len(b_commands))
    /\ batch_result' = [batch_result EXCEPT
                          !.all_successful = (batch_result.failed_commands = 0)]
    /\ b_pc' = "done"
    /\ UNCHANGED <<b_commands, b_callback, b_i, b_progress, b_executed>>
    /\ UNCHANGED nonBatchVars

(***************************************************************************)
(* SpecLifecycle: ExtensionImpl::initialize and shutdown, called in any    *)
(* order, with any one step of initialize failing.  A raw interface        *)
(* pointer is TRUE when it is not null; x_refs counts the references the   *)
(* debugger has handed out through QueryInterface and not yet seen         *)
(* released.  An object owned through a smart pointer lives exactly as     *)
(* long as the pointer is set.  A call is computed step by step on the     *)
(* record [ext, refs, events].                                             *)
(***************************************************************************)
\* The most calls of initialize and shutdown in one run.
MaxLifecycleCalls == 4

\* The sub-interfaces in the order initialize_debugger_interfaces asks for
\* them.
Interfaces ==
    <<"IDebugControl", "IDebugDataSpaces", "IDebugRegisters", "IDebugSymbols">>

InterfaceNames == {Interfaces[i] : i \in 1..Len(Interfaces)}

\* What can go wrong in one call of initialize: nothing, a null client, a
\* QueryInterface that fails, a constructor that throws, a server that
\* does not start.
InitializeFailures ==
    {"none", "null client", "SessionManager", "CommandExecutor",
     "NamedPipeServer", "start"} \cup InterfaceNames

\* ExtensionImpl as constructed
ExtensionImpl ==
    [initialized_ |-> FALSE, debug_client_ |-> FALSE,
     interface |-> [k \in InterfaceNames |-> FALSE],
     session_manager_ |-> FALSE, command_executor_ |-> FALSE,
     command_handlers_ |-> FALSE, pipe_server_ |-> "null"]

LifecycleInit ==
    /\ ext = ExtensionImpl
    /\ x_refs = [k \in InterfaceNames |-> 0]
    /\ x_events = <<>>
    /\ x_ret = [call |-> "none", result |-> "None", failure |-> "none"]
    /\ x_calls = 0

Event(st, kind, object) == [st EXCEPT !.events = Append(@, <<kind, object>>)]

\* debug_client_->QueryInterface(__uuidof(k), &pointer): on failure the
\* pointer is set to null
QueryInterface(st, k, ok) ==
    IF ok
    THEN Event([st EXCEPT !.ext.interface[k] = TRUE, !.refs[k] = @ + 1],
               "acquire", k)
    ELSE [st EXCEPT !.ext.interface[k] = FALSE]

\* [st, result]: the queries from the i-th on
RECURSIVE initialize_debugger_interfaces_from(_, _, _)
initialize_debugger_interfaces_from(i, st, failure) ==
    IF i > Len(Interfaces)
    THEN [st |-> st, result |-> "None"]
    ELSE IF failure = Interfaces[i]
    THEN [st |-> QueryInterface(st, Interfaces[i], FALSE),
          result |-> "DebuggerInterfaceError"]
    ELSE initialize_debugger_interfaces_from(
             i + 1, QueryInterface(st, Interfaces[i], TRUE), failure)

initialize_debugger_interfaces(st, failure) ==
    initialize_debugger_interfaces_from(1, st, failure)

\* make_shared<SessionManager>, make_shared<CommandExecutor>; an exception
\* leaves what was assigned before it
initialize_core_components(st, failure) ==
    IF failure = "SessionManager"
    THEN [st |-> st, result |-> "InitializationFailed"]
    ELSE LET s1 == Event([st EXCEPT !.ext.session_manager_ = TRUE],
                         "create", "SessionManager")
         IN IF failure = "CommandExecutor"
            THEN [st |-> s1, result |-> "InitializationFailed"]
            ELSE [st |-> Event([s1 EXCEPT !.ext.command_executor_ = TRUE],
                               "create", "CommandExecutor"),
                  result |-> "None"]

\* make_unique<NamedPipeServer>, set_message_handler, start()
initialize_communication(st, failure) ==
    IF failure = "NamedPipeServer"
    THEN [st |-> st, result |-> "CommunicationSetupFailed"]
    ELSE LET s1 == Event([st EXCEPT !.ext.pipe_server_ = "stopped"],
                         "create", "NamedPipeServer")
         IN IF failure = "start"
            THEN [st |-> s1, result |-> "CommunicationSetupFailed"]
            ELSE [st |-> Event([s1 EXCEPT !.ext.pipe_server_ = "running"],
                               "start", "NamedPipeServer"),
                  result |-> "None"]

\* pipe_server_->stop(); pipe_server_.reset()
cleanup_communication(st) ==
    IF st.ext.pipe_server_ = "null" THEN st
    ELSE LET s1 == IF st.ext.pipe_server_ = "running"
                   THEN Event([st EXCEPT !.ext.pipe_server_ = "stopped"],
                              "stop", "NamedPipeServer")
                   ELSE st
         IN Event([s1 EXCEPT !.ext.pipe_server_ = "null"],
                  "destroy", "NamedPipeServer")

\* The same without the reset of command_executor_, which keeps the
\* session store alive too.
cleanup_components_KeepsExecutor(st) ==
    LET s1 == IF st.ext.command_handlers_
              THEN Event([st EXCEPT !.ext.command_handlers_ = FALSE],
                         "destroy", "CommandHandlers")
              ELSE st
    IN [s1 EXCEPT !.ext.session_manager_ = FALSE]

\* command_handlers_.reset(); command_executor_.reset();
\* session_manager_.reset()
cleanup_components(st) ==
    LET s1 == IF st.ext.command_handlers_
              THEN Event([st EXCEPT !.ext.command_handlers_ = FALSE],
                         "destroy", "CommandHandlers")
              ELSE st
        s2 == IF s1.ext.command_executor_
              THEN Event([s1 EXCEPT !.ext.command_executor_ = FALSE],
                         "destroy", "CommandExecutor")
              ELSE s1
    IN IF s2.ext.session_manager_
       THEN Event([s2 EXCEPT !.ext.session_manager_ = FALSE],
                  "destroy", "SessionManager")
       ELSE s2

\* if (pointer) { pointer->Release(); pointer = nullptr; }
ReleaseInterface(st, k) ==
    IF st.ext.interface[k]
    THEN Event([st EXCEPT !.ext.interface[k] = FALSE, !.refs[k] = @ - 1],
               "release", k)
    ELSE st

\* The releases from the i-th interface down to the first
RECURSIVE cleanup_interfaces_from(_, _)
cleanup_interfaces_from(i, st) ==
    IF i < 1 THEN [st EXCEPT !.ext.debug_client_ = FALSE]
    ELSE cleanup_interfaces_from(i - 1, ReleaseInterface(st, Interfaces[i]))

cleanup_interfaces(st) == cleanup_interfaces_from(Len(Interfaces), st)

\* ExtensionImpl::initialize after its first check: [st, result]
initialize_steps(st, failure) ==
    IF failure = "null client"
    THEN [st |-> st, result |-> "InitializationFailed"]
    ELSE LET s0 == [st EXCEPT !.ext.debug_client_ = TRUE]
             r1 == initialize_debugger_interfaces(s0, failure)
         IN IF r1.result # "None"
            THEN [st |-> cleanup_interfaces(r1.st), result |-> r1.result]
            ELSE LET r2 == initialize_core_components(r1.st, failure)
                 IN IF r2.result # "None"
                    THEN [st |-> cleanup_interfaces(cleanup_components(r2.st)),
                          result |-> r2.result]
                    ELSE LET r3 == initialize_communication(r2.st, failure)
                         IN IF r3.result # "None"
                            THEN [st |-> cleanup_interfaces(cleanup_components(
                                            cleanup_communication(r3.st))),
                                  result |-> r3.result]
                            ELSE [st |-> [r3.st EXCEPT !.ext.initialized_ = TRUE],
                                  result |-> "None"]

\* The same without the check of initialized_.
initialize_Unguarded(st, failure) == initialize_steps(st, failure)

\* ExtensionImpl::initialize
initialize(st, failure) ==
    IF st.ext.initialized_
    THEN [st |-> st, result |-> "AlreadyInitialized"]
    ELSE initialize_steps(st, failure)

\* ExtensionImpl::shutdown
shutdown(st) ==
    IF ~st.ext.initialized_ THEN st
    ELSE [cleanup_interfaces(cleanup_components(cleanup_communication(st)))
             EXCEPT !.ext.initialized_ = FALSE]

Initialize ==
    /\ x_calls < MaxLifecycleCalls
    /\ \E failure \in InitializeFailures :
         LET r == initialize([ext |-> ext, refs |-> x_refs, events |-> <<>>],
                             failure)
         IN /\ ext' = r.st.ext
            /\ x_refs' = r.st.refs
            /\ x_events' = r.st.events
            /\ x_ret' = [call |-> "initialize", result |-> r.result,
                         failure |-> failure]
    /\ x_calls' = x_calls + 1
    /\ UNCHANGED nonLifecycleVars

Shutdown ==
    /\ x_calls < MaxLifecycleCalls
    /\ LET st == shutdown([ext |-> ext, refs |-> x_refs, events |-> <<>>])
       IN /\ ext' = st.ext
          /\ x_refs' = st.refs
          /\ x_events' = st.events
    /\ x_ret' = [call |-> "shutdown", result |-> "None", failure |-> "none"]
    /\ x_calls' = x_calls + 1
    /\ UNCHANGED nonLifecycleVars

\* handle_mcp_command on a pipe worker: the first command creates
\* command_handlers_
CreateCommandHandlers ==
    /\ ext.initialized_
    /\ ~ext.command_handlers_
    /\ ext' = [ext EXCEPT !.command_handlers_ = TRUE]
    /\ UNCHANGED <<x_refs, x_events, x_ret, x_calls>>
    /\ UNCHANGED nonLifecycleVars

(***************************************************************************)
(* SpecCapture: OutputCapture, the sink for the debugger's text output.    *)
(* The debugger calls Output with chunks drawn from a bounded set; Clear   *)
(* may be called at any time.  A string is a [text, pad] record as above;  *)
(* output_ is the sequence of the strings appended to it, so its size is   *)
(* the sum of their lengths.                                               *)
(***************************************************************************)
\* The most calls of Output in one run.
MaxOutputs == 3

MAX_OUTPUT_SIZE == 1048576

TruncationSentinel ==
    Cmd(
      <<"\n","[","O","u","t","p","u","t"," ","t","r","u","n","c","a",
        "t","e","d"," ","-"," ","m","a","x","i","m","u","m"," ","s",
        "i","z","e"," ","e","x","c","e","e","d","e","d","]","\n">>)

WarningPattern ==
    <<"W","A","R","N","I","N","G",":"," ",".","c","a","c","h","e"," ",
      "f","o","r","c","e","d","e","c","o","d","e","u","s","e","r"," ",
      "i","s"," ","n","o","t"," ","e","n","a","b","l","e","d">>

ExtensionErrorPattern ==
    <<"i","s"," ","n","o","t"," ","e","x","t","e","n","s","i","o","n",
      " ","g","a","l","l","e","r","y"," ","c","o","m","m","a","n","d">>

ExportPattern ==
    <<"N","o"," ","e","x","p","o","r","t">>

FoundPattern == <<"f","o","u","n","d">>

\* size(): of a string, and of output_
RECURSIVE OutputSize(_)
OutputSize(pieces) ==
    IF pieces = <<>> THEN 0
    ELSE CmdLength(Head(pieces)) + OutputSize(Tail(pieces))

\* a + b for strings whose filler, if any, is at the end of b
Concat(a, b) == [text |-> a.text \o b.text, pad |-> a.pad + b.pad]

IsWarningMessage(text) == CmdFind(text, WarningPattern) # NPOS

IsExtensionError(text) == CmdFind(text, ExtensionErrorPattern) # NPOS

IsExportError(text) ==
    CmdFind(text, ExportPattern) # NPOS /\ CmdFind(text, FoundPattern) # NPOS

\* text.substr(pos, count) with count as size_t: a count below zero has
\* wrapped round and takes the rest of the string
Substr(text, pos, count) ==
    IF count < 0 \/ pos + count >= Len(text.text)
    THEN [text |-> SubSeq(text.text, pos + 1, Len(text.text)), pad |-> text.pad]
    ELSE Cmd(SubSeq(text.text, pos + 1, pos + count))

FormatErrorMessage(text) ==
    IF IsExtensionError(text)
    THEN LET pos == CmdFind(text, <<" ">> \o ExtensionErrorPattern)
         IN IF pos = NPOS THEN text
            ELSE LET cmdName == Substr(text, 0, pos)
                 IN IF cmdName = Cmd(<<"m","o","d","i","n","f","o">>)
                    THEN Cmd(
                      <<"N","o","t","e",":"," ","T","h","e"," ","!",
                        "m","o","d","i","n","f","o"," ","c","o","m",
                        "m","a","n","d"," ","i","s"," ","n","o","t",
                        " ","a","v","a","i","l","a","b","l","e",".",
                        " ","U","s","i","n","g"," ","a","l","t","e",
                        "r","n","a","t","i","v","e"," ","l","m","v",
                        " ","c","o","m","m","a","n","d"," ","i","n",
                        "s","t","e","a","d",".","\n">>)
                    ELSE Concat(Concat(Cmd(
                      <<"E","r","r","o","r",":"," ","C","o","m","m",
                        "a","n","d"," ","'">>), cmdName), Cmd(
                      <<"'"," ","i","s"," ","n","o","t"," ","a","v",
                        "a","i","l","a","b","l","e","."," ","M","a",
                        "k","e"," ","s","u","r","e"," ","t","h","e",
                        " ","r","e","q","u","i","r","e","d"," ","e",
                        "x","t","e","n","s","i","o","n"," ","i","s",
                        " ","l","o","a","d","e","d",".","\n">>))
    ELSE IF IsExportError(text)
    THEN LET pos == CmdFind(text, <<" ">> \o FoundPattern)
         IN IF pos = NPOS THEN text
            ELSE Concat(Concat(Cmd(
              <<"N","o","t","e",":"," ","C","o","m","m","a","n","d",
                " ","'">>), Substr(text, 9, pos - 9)), Cmd(
              <<"'"," ","i","s"," ","n","o","t"," ","a","v","a","i",
                "l","a","b","l","e"," ","i","n"," ","t","h","e"," ",
                "c","u","r","r","e","n","t"," ","d","e","b","u","g",
                "g","i","n","g"," ","c","o","n","t","e","x","t",".",
                "\n">>))
    ELSE text

\* [output_, extension_error_, export_error_] after ProcessOutputText
ProcessOutputText(o, text) ==
    IF IsWarningMessage(text)
    THEN [o EXCEPT !.output_ =
            Append(@, Concat(Concat(Cmd(<<"N","o","t","e",":"," ">>), text),
                             Cmd(<<"\n">>)))]
    ELSE IF IsExtensionError(text)
    THEN IF ~o.extension_error_
         THEN [o EXCEPT !.output_ = Append(@, FormatErrorMessage(text)),
                        !.extension_error_ = TRUE]
         ELSE o
    ELSE IF IsExportError(text)
    THEN IF ~o.export_error_
         THEN [o EXCEPT !.output_ = Append(@, FormatErrorMessage(text)),
                        !.export_error_ = TRUE]
         ELSE o
    ELSE [o EXCEPT !.output_ = Append(@, text)]

\* A null Text
NullText == [text |-> <<>>, pad |-> -1]

\* OutputCapture::Output under output_mutex_
OutputCapture_Output(o, Text) ==
    IF Text = NullText THEN o
    ELSE IF OutputSize(o.output_) + CmdLength(Text) > MAX_OUTPUT_SIZE
    THEN [o EXCEPT !.output_ = Append(@, TruncationSentinel)]
    ELSE ProcessOutputText(o, Text)

\* A few bytes; exactly the limit and one byte more; most of the limit; one
\* chunk of each pattern the sink rewrites.
CaptureTexts ==
    { NullText,
      Cmd(<<"a","b","c">>),
      [text |-> <<"a","b","c">>, pad |-> MAX_OUTPUT_SIZE - 3],
      [text |-> <<"a","b","c">>, pad |-> MAX_OUTPUT_SIZE - 2],
      [text |-> <<"a","b","c">>, pad |-> MAX_OUTPUT_SIZE - 13],
      Cmd(WarningPattern),
      Cmd(<<"m","o","d","i","n","f","o"," ">> \o ExtensionErrorPattern),
      Cmd(<<"f","o","o"," ">> \o ExtensionErrorPattern),
      Cmd(ExportPattern \o <<" ","f","o","o"," ">> \o FoundPattern) }

\* OutputCapture as constructed
CaptureInit ==
    /\ output_ = <<>>
    /\ extension_error_ = FALSE
    /\ export_error_ = FALSE
    /\ o_calls = 0

\* The debugger calls Output(Mask, Text)
Output ==
    /\ o_calls < MaxOutputs
    /\ \E Text \in CaptureTexts :
         LET o == OutputCapture_Output(
                      [output_ |-> output_,
                       extension_error_ |-> extension_error_,
                       export_error_ |-> export_error_], Text)
         IN /\ output_' = o.output_
            /\ extension_error_' = o.extension_error_
            /\ export_error_' = o.export_error_
    /\ o_calls' = o_calls + 1
    /\ UNCHANGED nonCaptureVars

\* OutputCapture::Clear
Clear ==
    /\ output_ # <<>> \/ extension_error_ \/ export_error_
    /\ output_' = <<>>
    /\ extension_error_' = FALSE
    /\ export_error_' = FALSE
    /\ UNCHANGED o_calls
    /\ UNCHANGED nonCaptureVars

(***************************************************************************)
(* SpecHelper: the capture installed around one debugger command.  Two     *)
(* functions do it: WinDbgCommandExecutor::ExecuteCommand with an          *)
(* OutputCaptureHelper local to its try block ("helper"), and              *)
(* WinDbgHelpers::execute_command_with_timeout with the same steps written *)
(* inline ("inline").  The failures drawn are the ones the code has a      *)
(* branch or a handler for: SetOutputCallbacks failing, Execute failing,   *)
(* and an exception thrown while the capture is installed (caught by       *)
(* ExecuteCommand itself, and by CommandExecutor::execute_windbg_command   *)
(* around execute_command_with_timeout).                                   *)
(***************************************************************************)
CaptureScopes == {"c1", "c2"}

CapturePaths == {"helper", "inline"}

\* The sink a scope creates (new OutputCapture / new OutputCallback), named
\* after the scope
Sink(c) == c

HelperInit ==
    /\ client_callbacks \in {"host", "null"}
    /\ h_pc = [c \in CaptureScopes |-> "idle"]
    /\ h_path = [c \in CaptureScopes |-> "none"]
    /\ previous_callbacks_ = [c \in CaptureScopes |-> "null"]
    /\ h_original = [c \in CaptureScopes |-> "null"]
    /\ h_outcome = [c \in CaptureScopes |-> "none"]
    /\ h_captured = [c \in CaptureScopes |-> {}]
    /\ h_returned = [c \in CaptureScopes |-> {}]

\* A command enters ExecuteCommand's try block or
\* execute_command_with_timeout and creates its sink.
CaptureBegin(c) ==
    /\ h_pc[c] = "idle"
    /\ \E path \in CapturePaths : h_path' = [h_path EXCEPT ![c] = path]
    /\ h_pc' = [h_pc EXCEPT ![c] = "Get"]
    /\ h_outcome' = [h_outcome EXCEPT ![c] = "none"]
    /\ h_captured' = [h_captured EXCEPT ![c] = {}]
    /\ h_returned' = [h_returned EXCEPT ![c] = {}]
    /\ UNCHANGED <<client_callbacks, previous_callbacks_, h_original>>
    /\ UNCHANGED nonHelperVars

\* GetOutputCallbacks(&previous_callbacks_)
CaptureGet(c) ==
    /\ h_pc[c] = "Get"
    /\ previous_callbacks_' = [previous_callbacks_ EXCEPT ![c] = client_callbacks]
    /\ h_original' = [h_original EXCEPT ![c] = client_callbacks]
    /\ h_pc' = [h_pc EXCEPT ![c] = "Set"]
    /\ UNCHANGED <<client_callbacks, h_path, h_outcome, h_captured, h_returned>>
    /\ UNCHANGED nonHelperVars

\* SetOutputCallbacks(sink): the helper's constructor ignores the result,
\* execute_command_with_timeout returns the error without running the command
CaptureSet(c) ==
    /\ h_pc[c] = "Set"
    /\ \E ok \in BOOLEAN :
         IF ok
         THEN /\ client_callbacks' = Sink(c)
              /\ h_pc' = [h_pc EXCEPT ![c] = "Execute"]
              /\ UNCHANGED h_outcome
         ELSE /\ UNCHANGED client_callbacks
              /\ IF h_path[c] = "inline"
                 THEN /\ h_pc' = [h_pc EXCEPT ![c] = "idle"]
                      /\ h_outcome' = [h_outcome EXCEPT ![c] = "failed"]
                 ELSE /\ h_pc' = [h_pc EXCEPT ![c] = "Execute"]
                      /\ UNCHANGED h_outcome
    /\ UNCHANGED <<h_path, previous_callbacks_, h_original, h_captured,
                   h_returned>>
    /\ UNCHANGED nonHelperVars

\* The sinks after the debugger has written a command's text to the
\* client's output callbacks: the sink of a command in progress receives it
deliver(captured, callbacks, pc, c) ==
    [d \in CaptureScopes |->
        IF callbacks = Sink(d) /\ pc[d] \in {"Execute", "Restore"}
        THEN captured[d] \cup {c} ELSE captured[d]]

\* What happens to an exception thrown between install and restore
unwind(path) == IF path = "helper" THEN "Restore" ELSE "idle"

\* The command text is copied, IDebugControl::Execute runs, the debugger
\* writing the command's text to the callbacks installed on the client, and
\* the text in the command's own sink is copied out as its output.  An
\* exception unwinds through the helper's destructor in ExecuteCommand;
\* execute_command_with_timeout has no handler and nothing that runs on
\* unwinding.
CaptureExecute(c) ==
    /\ h_pc[c] = "Execute"
    /\ h_captured' = deliver(h_captured, client_callbacks, h_pc, c)
    /\ \E outcome \in {"ok", "failed", "exception"} :
         /\ h_outcome' = [h_outcome EXCEPT ![c] = outcome]
         /\ h_pc' = [h_pc EXCEPT ![c] =
                IF outcome = "exception" THEN unwind(h_path[c]) ELSE "Restore"]
         /\ h_returned' = [h_returned EXCEPT ![c] =
                IF outcome = "ok" THEN h_captured'[c] ELSE {}]
    /\ UNCHANGED <<client_callbacks, h_path, previous_callbacks_, h_original>>
    /\ UNCHANGED nonHelperVars

\* SetOutputCallbacks(previous_callbacks_) and the two Release calls:
\* ~OutputCaptureHelper, or the inline restore
CaptureRestore(c) ==
    /\ h_pc[c] = "Restore"
    /\ client_callbacks' = previous_callbacks_[c]
    /\ previous_callbacks_' = [previous_callbacks_ EXCEPT ![c] = "null"]
    /\ h_pc' = [h_pc EXCEPT ![c] = "idle"]
    /\ UNCHANGED <<h_path, h_original, h_outcome, h_captured, h_returned>>
    /\ UNCHANGED nonHelperVars

(***************************************************************************)
(* SpecSession: SessionManager::get_state against update_state.  get_state *)
(* returns a reference to state_ and its shared lock ends with the call;   *)
(* every caller writes  auto session_state = session_manager->get_state()  *)
(* and so copies the members, in declaration order, after the lock is      *)
(* gone.  update_state assigns the members in the same order under the     *)
(* exclusive lock.  The copy and the assignment are one step per member.   *)
(***************************************************************************)
SessionReaders == {"r1", "r2"}

SessionWriter == "w"

\* The members of SessionState that the model keeps, in declaration order
SessionFields == <<"current_process", "current_thread", "is_connected">>

\* SessionState as constructed: no process, no thread, not connected
DefaultSessionState ==
    [current_process |-> 0, current_thread |-> 0, is_connected |-> FALSE]

\* The states update_state is called with
SessionStates ==
    { [current_process |-> 1, current_thread |-> 1, is_connected |-> TRUE],
      [current_process |-> 2, current_thread |-> 2, is_connected |-> FALSE] }

Unlocked == [exclusive |-> "none", shared |-> {}]

SessionInit ==
    /\ state_ = DefaultSessionState
    /\ initialized_ = FALSE
    /\ state_mutex_ = Unlocked
    /\ s_pc = [t \in SessionReaders \cup {SessionWriter} |-> "idle"]
    /\ s_new = DefaultSessionState
    /\ s_idx = [t \in SessionReaders \cup {SessionWriter} |-> 1]
    /\ s_snapshot = [r \in SessionReaders |-> DefaultSessionState]
    /\ s_states = {DefaultSessionState}

\* get_state: ensure_initialized reads initialized_
EnsureInitialized(r) ==
    /\ s_pc[r] = "idle"
    /\ s_pc' = [s_pc EXCEPT ![r] =
                   IF initialized_ THEN "lock_shared" ELSE "initialize"]
    /\ UNCHANGED <<state_, initialized_, state_mutex_, s_new, s_idx,
                   s_snapshot, s_states>>
    /\ UNCHANGED nonSessionVars

\* SessionManager::initialize under the exclusive lock; the debugger
\* helpers it asks for the process and the thread return E_NOTIMPL, so it
\* sets is_connected only
SessionInitialize(r) ==
    /\ s_pc[r] = "initialize"
    /\ state_mutex_ = Unlocked
    /\ state_' = [state_ EXCEPT !.is_connected = TRUE]
    /\ initialized_' = TRUE
    /\ s_states' = s_states \cup {state_'}
    /\ s_pc' = [s_pc EXCEPT ![r] = "lock_shared"]
    /\ UNCHANGED <<state_mutex_, s_new, s_idx, s_snapshot>>
    /\ UNCHANGED nonSessionVars

\* get_state: std::shared_lock lock(state_mutex_)
LockShared(r) ==
    /\ s_pc[r] = "lock_shared"
    /\ state_mutex_.exclusive = "none"
    /\ state_mutex_' = [state_mutex_ EXCEPT !.shared = @ \cup {r}]
    /\ s_pc' = [s_pc EXCEPT ![r] = "return"]
    /\ UNCHANGED <<state_, initialized_, s_new, s_idx, s_snapshot, s_states>>
    /\ UNCHANGED nonSessionVars

\* get_state: return state_; the lock's destructor runs and the caller
\* holds a reference
ReturnReference(r) ==
    /\ s_pc[r] = "return"
    /\ state_mutex_' = [state_mutex_ EXCEPT !.shared = @ \ {r}]
    /\ s_idx' = [s_idx EXCEPT ![r] = 1]
    /\ s_pc' = [s_pc EXCEPT ![r] = "copy"]
    /\ UNCHANGED <<state_, initialized_, s_new, s_snapshot, s_states>>
    /\ UNCHANGED nonSessionVars

\* The caller's copy of the next member through the reference
CopyMember(r) ==
    /\ s_pc[r] = "copy"
    /\ LET f == SessionFields[s_idx[r]]
       IN s_snapshot' = [s_snapshot EXCEPT ![r][f] = state_[f]]
    /\ s_idx' = [s_idx EXCEPT ![r] = @ + 1]
    /\ s_pc' = [s_pc EXCEPT ![r] =
                   IF s_idx[r] = Len(SessionFields) THEN "done" ELSE "copy"]
    /\ UNCHANGED <<state_, initialized_, state_mutex_, s_new, s_states>>
    /\ UNCHANGED nonSessionVars

\* The caller is done with its snapshot
SnapshotUsed(r) ==
    /\ s_pc[r] = "done"
    /\ s_pc' = [s_pc EXCEPT ![r] = "idle"]
    /\ UNCHANGED <<state_, initialized_, state_mutex_, s_new, s_idx,
                   s_snapshot, s_states>>
    /\ UNCHANGED nonSessionVars

\* update_state: std::unique_lock lock(state_mutex_)
UpdateLock ==
    /\ s_pc[SessionWriter] = "idle"
    /\ state_mutex_ = Unlocked
    /\ \E new_state \in SessionStates : s_new' = new_state
    /\ state_mutex_' = [state_mutex_ EXCEPT !.exclusive = SessionWriter]
    /\ s_idx' = [s_idx EXCEPT ![SessionWriter] = 1]
    /\ s_pc' = [s_pc EXCEPT ![SessionWriter] = "assign"]
    /\ UNCHANGED <<state_, initialized_, s_snapshot, s_states>>
    /\ UNCHANGED nonSessionVars

\* update_state: state_ = new_state, the next member
AssignMember ==
    /\ s_pc[SessionWriter] = "assign"
    /\ LET f == SessionFields[s_idx[SessionWriter]]
       IN state_' = [state_ EXCEPT ![f] = s_new[f]]
    /\ s_idx' = [s_idx EXCEPT ![SessionWriter] = @ + 1]
    /\ s_pc' = [s_pc EXCEPT ![SessionWriter] =
                   IF s_idx[SessionWriter] = Len(SessionFields)
                   THEN "unlock" ELSE "assign"]
    /\ s_states' = IF s_idx[SessionWriter] = Len(SessionFields)
                   THEN s_states \cup {state_'} ELSE s_states
    /\ UNCHANGED <<initialized_, state_mutex_, s_new, s_snapshot>>
    /\ UNCHANGED nonSessionVars

\* update_state returns and the exclusive lock ends
UpdateUnlock ==
    /\ s_pc[SessionWriter] = "unlock"
    /\ state_mutex_' = [state_mutex_ EXCEPT !.exclusive = "none"]
    /\ s_pc' = [s_pc EXCEPT ![SessionWriter] = "idle"]
    /\ UNCHANGED <<state_, initialized_, s_new, s_idx, s_snapshot, s_states>>
    /\ UNCHANGED nonSessionVars

(***************************************************************************)
(* SpecHandle: HandleWrapper.  The system gives out fresh handles; the     *)
(* caller hands each raw handle it holds to at most one wrapper (by the    *)
(* constructor or by reset) and gets one back only from release().         *)
(* Wrappers are constructed, moved, reset, released, closed and destroyed  *)
(* in any order.                                                           *)
(***************************************************************************)
\* The most handles the system gives out in one run.
MaxHandles == 3

Wrappers == {"a", "b"}

INVALID_HANDLE_VALUE == -1

NullHandle == 0

Handles == 1..MaxHandles

HandleValues == Handles \cup {INVALID_HANDLE_VALUE, NullHandle}

\* HandleWrapper::is_valid
is_valid(handle) == handle # INVALID_HANDLE_VALUE /\ handle # NullHandle

\* The handle a wrapper holds after close()
closed_handle_Kept(handle) == handle

closed_handle(handle) == INVALID_HANDLE_VALUE

\* HandleWrapper::close on [handle_, os_closes]
close(st, w) ==
    IF is_valid(st.handle_[w])
    THEN [handle_ |-> [st.handle_ EXCEPT ![w] = closed_handle(@)],
          os_closes |-> [st.os_closes EXCEPT ![st.handle_[w]] = @ + 1]]
    ELSE st

\* handle_ = std::exchange(other.handle_, INVALID_HANDLE_VALUE)
take(st, w, other) ==
    [st EXCEPT !.handle_ = [@ EXCEPT ![w] = st.handle_[other],
                                     ![other] = INVALID_HANDLE_VALUE]]

Wrapped == [handle_ |-> handle_, os_closes |-> os_closes]

HandleInit ==
    /\ handle_ = [w \in Wrappers |-> INVALID_HANDLE_VALUE]
    /\ w_alive = {}
    /\ os_closes = [h \in HandleValues |-> 0]
    /\ next_handle = 1
    /\ k_raw = {}
    /\ k_adopted = {}
    /\ k_released = {}
    /\ k_moved = {}
    /\ k_noop = FALSE

\* CreateNamedPipe, CreateEvent, ...: the system gives out a fresh handle
AcquireHandle ==
    /\ next_handle <= MaxHandles
    /\ k_raw' = k_raw \cup {next_handle}
    /\ next_handle' = next_handle + 1
    /\ UNCHANGED <<handle_, w_alive, os_closes, k_adopted, k_released,
                   k_moved, k_noop>>
    /\ UNCHANGED nonHandleVars

\* What the caller can pass as a handle
Adoptable == k_raw \cup {INVALID_HANDLE_VALUE, NullHandle}

\* HandleWrapper(handle)
Construct(w) ==
    /\ w \notin w_alive
    /\ \E handle \in Adoptable :
         /\ handle_' = [handle_ EXCEPT ![w] = handle]
         /\ k_raw' = k_raw \ {handle}
         /\ k_adopted' = k_adopted \cup ({handle} \cap Handles)
    /\ w_alive' = w_alive \cup {w}
    /\ UNCHANGED <<os_closes, next_handle, k_released, k_moved, k_noop>>
    /\ UNCHANGED nonHandleVars

\* HandleWrapper(HandleWrapper&& other)
MoveConstruct(w, other) ==
    /\ w \notin w_alive
    /\ other \in w_alive
    /\ handle_' = take(Wrapped, w, other).handle_
    /\ w_alive' = w_alive \cup {w}
    /\ k_moved' = k_moved \cup ({handle_[other]} \cap Handles)
    /\ UNCHANGED <<os_closes, next_handle, k_raw, k_adopted, k_released,
                   k_noop>>
    /\ UNCHANGED nonHandleVars

\* operator=(HandleWrapper&& other), other being the wrapper itself or not
MoveAssign(w, other) ==
    /\ w \in w_alive
    /\ other \in w_alive
    /\ LET st == IF w # other THEN take(close(Wrapped, w), w, other)
                 ELSE Wrapped
       IN /\ handle_' = st.handle_
          /\ os_closes' = st.os_closes
    /\ k_moved' = IF w # other THEN k_moved \cup ({handle_[other]} \cap Handles)
                  ELSE k_moved
    /\ UNCHANGED <<w_alive, next_handle, k_raw, k_adopted, k_released, k_noop>>
    /\ UNCHANGED nonHandleVars

\* release()
Release(w) ==
    /\ w \in w_alive
    /\ handle_' = [handle_ EXCEPT ![w] = INVALID_HANDLE_VALUE]
    /\ k_raw' = k_raw \cup ({handle_[w]} \cap Handles)
    /\ k_released' = k_released \cup ({handle_[w]} \cap Handles)
    /\ UNCHANGED <<w_alive, os_closes, next_handle, k_adopted, k_moved, k_noop>>
    /\ UNCHANGED nonHandleVars

\* reset(new_handle)
Reset(w) ==
    /\ w \in w_alive
    /\ \E new_handle \in Adoptable :
         /\ LET st == IF handle_[w] # new_handle
                      THEN [close(Wrapped, w) EXCEPT !.handle_[w] = new_handle]
                      ELSE Wrapped
            IN /\ handle_' = st.handle_
               /\ os_closes' = st.os_closes
         /\ k_raw' = k_raw \ {new_handle}
         /\ k_adopted' = k_adopted \cup ({new_handle} \cap Handles)
    /\ UNCHANGED <<w_alive, next_handle, k_released, k_moved, k_noop>>
    /\ UNCHANGED nonHandleVars

\* close()
Close(w) ==
    /\ w \in w_alive
    /\ handle_' = close(Wrapped, w).handle_
    /\ os_closes' = close(Wrapped, w).os_closes
    /\ k_noop' = (k_noop \/ ~is_valid(handle_[w]))
    /\ UNCHANGED <<w_alive, next_handle, k_raw, k_adopted, k_released, k_moved>>
    /\ UNCHANGED nonHandleVars

\* ~HandleWrapper()
Destroy(w) ==
    /\ w \in w_alive
    /\ handle_' = close(Wrapped, w).handle_
    /\ os_closes' = close(Wrapped, w).os_closes
    /\ w_alive' = w_alive \ {w}
    /\ UNCHANGED <<next_handle, k_raw, k_adopted, k_released, k_moved, k_noop>>
    /\ UNCHANGED nonHandleVars

(***************************************************************************)
(* SpecRouter: CommandHandlers::handle_generic_command applied once to a   *)
(* command drawn from a bounded set: the process commands, .create with a  *)
(* path, and the memory display family with and without a count.           *)
(***************************************************************************)
CreateCommand(path) == Cmd(<<".","c","r","e","a","t","e"," ">> \o path)

RouterPaths ==
    { <<"C",":","\\","A","p","p","s","\\","N","o","t","e","p","a","d",".","e","x","e">>,
      <<"c",":","\\","a","p","p","s","\\","n","o","t","e","p","a","d",".","e","x","e">>,
      <<"a","p","p",".","e","x","e"," ","-","V","e","r","b","o","s","e">> }

\* kind address [L count], the count introduced by ell
MemoryCommand(kind, address, ell, count) ==
    Cmd(kind \o <<" ">> \o address
        \o (IF count = <<>> THEN <<>> ELSE <<" ", ell>> \o count))

RouterAddresses == { <<"0","x","1","0","0","0">>, <<"0","x","7","f","f","e","0","0","0","0">> }

RouterCounts == { <<>>, <<"0","x","2","0">>, <<"0","x","1","0","0">>, <<"0","x","8">> }

RouterProcessCommands ==
    { Cmd(<<".","d","e","t","a","c","h">>), Cmd(<<".","k","i","l","l">>), Cmd(<<".","D","E","T","A","C","H">>), Cmd(<<" ",".","k","i","l","l"," ">>), Cmd(<<"l","m">>), Cmd(<<".","r","e","s","t","a","r","t">>) }

RouterCommands ==
    RouterProcessCommands
    \cup {CreateCommand(path) : path \in RouterPaths}
    \cup {MemoryCommand(kind, address, ell, count) :
            kind \in MemoryKinds, address \in RouterAddresses,
            ell \in {"L", "l"}, count \in RouterCounts}

NoRouted == [threw |-> FALSE, text |-> "", adapter_calls |-> <<>>]

RouterIdle ==
    /\ r_pc = "idle"
    /\ r_cmd = Cmd(<<>>)
    /\ r_env = NoEnv
    /\ r_res = NoRouted

RouterInit ==
    /\ r_pc = "ready"
    /\ r_cmd \in RouterCommands
    /\ r_env \in [session_manager : {TRUE}, adapter : AdapterOutcomes,
                  outlasts_timeout : {FALSE}]
    /\ r_res = NoRouted

\* handle_generic_command(command)
RouterHandle ==
    /\ r_pc = "ready"
    /\ r_res' = handle_generic_command(r_cmd, r_env)
    /\ r_pc' = "done"
    /\ UNCHANGED <<r_cmd, r_env>>
    /\ UNCHANGED nonRouterVars

(***************************************************************************)
(* SpecRead: the worker of one connection, handle_client_connection, with  *)
(* every status PeekNamedPipe and ReadFile can report.  The worker polls   *)
(* at most MaxPolls times.                                                 *)
(***************************************************************************)
MaxPolls == 3

\* GetLastError() after a failed PeekNamedPipe or ReadFile
PipeErrorCodes ==
    { "ERROR_BROKEN_PIPE", "ERROR_PIPE_NOT_CONNECTED", "ERROR_NO_DATA",
      "ERROR_MORE_DATA", "ERROR_INVALID_HANDLE" }

\* What the system does during one read_message and the write_message
\* that follows a message: the status of PeekNamedPipe, whether bytes are
\* available, the status of ReadFile, and what write_message returns.
OsOutcomes ==
    {[peek |-> e, available |-> FALSE, read |-> "ok", write |-> "None"] :
        e \in PipeErrorCodes \cup {"ok"}}
    \cup {[peek |-> "ok", available |-> TRUE, read |-> e, write |-> "None"] :
            e \in PipeErrorCodes}
    \cup {[peek |-> "ok", available |-> TRUE, read |-> "ok", write |-> w] :
            w \in {"None", "WriteFailed", "Disconnected"}}

is_pipe_error_recoverable(error_code) ==
    error_code \notin {"ERROR_BROKEN_PIPE", "ERROR_PIPE_NOT_CONNECTED",
                       "ERROR_NO_DATA"}

\* The error branch of read_message after a failed system call
read_failed(last_error) ==
    IF last_error \in {"ERROR_BROKEN_PIPE", "ERROR_PIPE_NOT_CONNECTED"}
    THEN [error |-> "Disconnected", has_data |-> FALSE, active |-> FALSE]
    ELSE [error |-> "ReadFailed", has_data |-> FALSE, active |-> TRUE]

\* ClientConnection::read_message: [error, has_data, active]
ClientConnection_read_message(active_, os) ==
    IF ~active_
    THEN [error |-> "Disconnected", has_data |-> FALSE, active |-> active_]
    ELSE IF os.peek # "ok" THEN read_failed(os.peek)
    ELSE IF ~os.available
    THEN [error |-> "None", has_data |-> FALSE, active |-> TRUE]
    ELSE IF os.read # "ok" THEN read_failed(os.read)
    ELSE [error |-> "None", has_data |-> TRUE, active |-> TRUE]

\* The PipeServerError process_client_messages returns
process_client_messages(r, os) ==
    IF r.error # "None" THEN r.error
    ELSE IF ~r.has_data THEN "None"
    ELSE os.write

ReaderInit ==
    /\ n_pc = "loop"
    /\ n_active = TRUE
    /\ n_running = TRUE
    /\ n_polls = <<>>

\* One turn of the loop of handle_client_connection: the condition held,
\* process_client_messages ran; on an error mark_inactive and break.
ConnectionPoll ==
    /\ n_pc = "loop"
    /\ n_running
    /\ n_active
    /\ Len(n_polls) < MaxPolls
    /\ \E os \in OsOutcomes :
         LET r == ClientConnection_read_message(n_active, os)
             error == process_client_messages(r, os)
         IN /\ n_polls' = Append(n_polls, os)
            /\ IF error # "None"
               THEN /\ n_active' = FALSE
                    /\ n_pc' = "cleanup"
               ELSE /\ n_active' = r.active
                    /\ n_pc' = "loop"
    /\ UNCHANGED n_running
    /\ UNCHANGED nonReaderVars

\* The loop condition fails.
ConnectionLeave ==
    /\ n_pc = "loop"
    /\ ~(n_running /\ n_active)
    /\ n_pc' = "cleanup"
    /\ UNCHANGED <<n_active, n_running, n_polls>>
    /\ UNCHANGED nonReaderVars

\* cleanup_disconnected_connections; the thread ends.
ConnectionCleanup ==
    /\ n_pc = "cleanup"
    /\ n_pc' = "done"
    /\ UNCHANGED <<n_active, n_running, n_polls>>
    /\ UNCHANGED nonReaderVars

\* stop(): running_.store(false)
ServerStop ==
    /\ n_running
    /\ n_running' = FALSE
    /\ UNCHANGED <<n_pc, n_active, n_polls>>
    /\ UNCHANGED nonReaderVars

(***************************************************************************)
(* SpecTeardown: ExtensionImpl::shutdown step by step against the threads  *)
(* of an initialised extension: the listener, the pipe workers it creates, *)
(* and the engine's two workers.  A pipe worker is at "command" and an     *)
(* engine worker at "task" while it runs a debugger command, which calls   *)
(* the sub-interfaces.                                                     *)
(***************************************************************************)
PipeWorkers == {"p1", "p2"}

TeardownEngineWorkers == {"e1", "e2"}

\* The most tasks queued and not yet taken.
MaxPending == 1

TeardownInit ==
    /\ z_pc = "ready"
    /\ z_running = TRUE
    /\ z_shutdown = FALSE
    /\ z_listener = "check"
    /\ z_clients = [p \in PipeWorkers |-> "none"]
    /\ z_engine = [w \in TeardownEngineWorkers |-> "top"]
    /\ z_pending = 0
    /\ z_interface = [k \in InterfaceNames |-> TRUE]

\* The shared lock of connections_mutex_ is held by a worker for the whole
\* of its loop.
connections_shared(clients) ==
    \E p \in PipeWorkers : clients[p] \in {"loop", "command"}

\* The same without waiting for the threads.
client_threads_joined_NoJoin(clients) == TRUE

\* stop(): every thread of client_threads_ has been joined
client_threads_joined(clients) ==
    \A p \in PipeWorkers : clients[p] \in {"none", "exited"}

\* stop_worker_threads(): every thread of worker_threads_ has been joined
worker_threads_joined(engine) ==
    \A w \in TeardownEngineWorkers : engine[w] = "exited"

\* tasks_cv_.notify_all(): every sleeping worker re-evaluates its predicate
wake_all(engine) ==
    [w \in TeardownEngineWorkers |->
        IF engine[w] = "asleep" THEN "wait" ELSE engine[w]]

\* ---- the thread that calls shutdown ----

\* shutdown() finds initialized_ set; cleanup_communication calls stop(),
\* which clears running_.
TeardownStop ==
    /\ z_pc = "ready"
    /\ z_running' = FALSE
    /\ z_pc' = "join_server"
    /\ UNCHANGED <<z_shutdown, z_listener, z_clients, z_engine, z_pending,
                   z_interface>>
    /\ UNCHANGED nonTeardownVars

\* server_thread_->join()
TeardownJoinServer ==
    /\ z_pc = "join_server"
    /\ z_listener = "exited"
    /\ z_pc' = "join_clients"
    /\ UNCHANGED <<z_running, z_shutdown, z_listener, z_clients, z_engine,
                   z_pending, z_interface>>
    /\ UNCHANGED nonTeardownVars

\* The client threads are joined; stop() returns and pipe_server_ is reset.
TeardownJoinClients ==
    /\ z_pc = "join_clients"
    /\ client_threads_joined(z_clients)
    /\ z_pc' = "components"
    /\ UNCHANGED <<z_running, z_shutdown, z_listener, z_clients, z_engine,
                   z_pending, z_interface>>
    /\ UNCHANGED nonTeardownVars

\* cleanup_components: command_handlers_.reset() drops the other owner of
\* the executor, command_executor_.reset() runs ~CommandExecutor, whose
\* stop_worker_threads sets shutdown_requested_ and notifies all.
TeardownComponents ==
    /\ z_pc = "components"
    /\ z_shutdown' = TRUE
    /\ z_engine' = wake_all(z_engine)
    /\ z_pc' = "join_engine"
    /\ UNCHANGED <<z_running, z_listener, z_clients, z_pending, z_interface>>
    /\ UNCHANGED nonTeardownVars

\* The engine's threads are joined; ~CommandExecutor returns and
\* session_manager_ is reset.
TeardownJoinEngine ==
    /\ z_pc = "join_engine"
    /\ worker_threads_joined(z_engine)
    /\ z_pc' = "interfaces"
    /\ UNCHANGED <<z_running, z_shutdown, z_listener, z_clients, z_engine,
                   z_pending, z_interface>>
    /\ UNCHANGED nonTeardownVars

\* cleanup_interfaces: the next Release(), in reverse order of acquisition
TeardownRelease ==
    /\ z_pc = "interfaces"
    /\ \E i \in 1..Len(Interfaces) :
         /\ z_interface[Interfaces[i]]
         /\ \A j \in (i + 1)..Len(Interfaces) : ~z_interface[Interfaces[j]]
         /\ z_interface' = [z_interface EXCEPT ![Interfaces[i]] = FALSE]
         /\ z_pc' = IF i = 1 THEN "done" ELSE "interfaces"
    /\ UNCHANGED <<z_running, z_shutdown, z_listener, z_clients, z_engine,
                   z_pending>>
    /\ UNCHANGED nonTeardownVars

\* ---- the listener: server_loop ----

TeardownListenerCheck ==
    /\ z_listener = "check"
    /\ z_listener' = IF z_running THEN "accept" ELSE "exited"
    /\ UNCHANGED <<z_pc, z_running, z_shutdown, z_clients, z_engine,
                   z_pending, z_interface>>
    /\ UNCHANGED nonTeardownVars

\* ConnectNamedPipe returns when a client connects.
TeardownListenerAccept ==
    /\ z_listener = "accept"
    /\ z_listener' = "register"
    /\ UNCHANGED <<z_pc, z_running, z_shutdown, z_clients, z_engine,
                   z_pending, z_interface>>
    /\ UNCHANGED nonTeardownVars

\* The connection is pushed under the exclusive lock and its worker
\* thread is created.
TeardownListenerRegister(p) ==
    /\ z_listener = "register"
    /\ ~connections_shared(z_clients)
    /\ z_clients[p] = "none"
    /\ z_clients' = [z_clients EXCEPT ![p] = "loop"]
    /\ z_listener' = "check"
    /\ UNCHANGED <<z_pc, z_running, z_shutdown, z_engine, z_pending,
                   z_interface>>
    /\ UNCHANGED nonTeardownVars

\* ---- a pipe worker: handle_client_connection ----

\* The loop condition held and read_message returned a message, or an
\* error that ends the connection.
PipeWorkerPoll(p) ==
    /\ z_clients[p] = "loop"
    /\ z_running
    /\ \E next \in {"command", "cleanup"} :
         z_clients' = [z_clients EXCEPT ![p] = next]
    /\ UNCHANGED <<z_pc, z_running, z_shutdown, z_listener, z_engine,
                   z_pending, z_interface>>
    /\ UNCHANGED nonTeardownVars

\* handle_command ran the command through the debugger; the reply is
\* written, or the write fails and the connection ends.
PipeWorkerCommand(p) ==
    /\ z_clients[p] = "command"
    /\ \E next \in {"loop", "cleanup"} :
         z_clients' = [z_clients EXCEPT ![p] = next]
    /\ UNCHANGED <<z_pc, z_running, z_shutdown, z_listener, z_engine,
                   z_pending, z_interface>>
    /\ UNCHANGED nonTeardownVars

\* The loop condition fails: running_ is false.
PipeWorkerLeave(p) ==
    /\ z_clients[p] = "loop"
    /\ ~z_running
    /\ z_clients' = [z_clients EXCEPT ![p] = "cleanup"]
    /\ UNCHANGED <<z_pc, z_running, z_shutdown, z_listener, z_engine,
                   z_pending, z_interface>>
    /\ UNCHANGED nonTeardownVars

\* cleanup_disconnected_connections under the exclusive lock; the thread
\* ends.
PipeWorkerCleanup(p) ==
    /\ z_clients[p] = "cleanup"
    /\ ~connections_shared(z_clients)
    /\ z_clients' = [z_clients EXCEPT ![p] = "exited"]
    /\ UNCHANGED <<z_pc, z_running, z_shutdown, z_listener, z_engine,
                   z_pending, z_interface>>
    /\ UNCHANGED nonTeardownVars

\* ---- an engine worker: worker_thread_loop ----

\* while (!shutdown_requested_)
EngineLoopTop(w) ==
    /\ z_engine[w] = "top"
    /\ z_engine' = [z_engine EXCEPT
                      ![w] = IF z_shutdown THEN "exited" ELSE "wait"]
    /\ UNCHANGED <<z_pc, z_running, z_shutdown, z_listener, z_clients,
                   z_pending, z_interface>>
    /\ UNCHANGED nonTeardownVars

\* Under tasks_mutex_: the predicate of tasks_cv_.wait; break when shut
\* down with nothing queued; otherwise take the front task; when the
\* predicate is false the worker is about to block.
EngineWait(w) ==
    /\ z_engine[w] = "wait"
    /\ IF z_pending > 0
       THEN /\ z_pending' = z_pending - 1
            /\ z_engine' = [z_engine EXCEPT ![w] = "task"]
       ELSE /\ z_pending' = z_pending
            /\ z_engine' = [z_engine EXCEPT
                              ![w] = IF z_shutdown THEN "exited"
                                     ELSE "blocking"]
    /\ UNCHANGED <<z_pc, z_running, z_shutdown, z_listener, z_clients,
                   z_interface>>
    /\ UNCHANGED nonTeardownVars

\* The worker blocks on tasks_cv_; a notification sent since it evaluated
\* the predicate is lost.
EngineSleep(w) ==
    /\ z_engine[w] = "blocking"
    /\ z_engine' = [z_engine EXCEPT ![w] = "asleep"]
    /\ UNCHANGED <<z_pc, z_running, z_shutdown, z_listener, z_clients,
                   z_pending, z_interface>>
    /\ UNCHANGED nonTeardownVars

\* task(): the command runs through the debugger.
EngineTask(w) ==
    /\ z_engine[w] = "task"
    /\ z_engine' = [z_engine EXCEPT ![w] = "top"]
    /\ UNCHANGED <<z_pc, z_running, z_shutdown, z_listener, z_clients,
                   z_pending, z_interface>>
    /\ UNCHANGED nonTeardownVars

\* execute_command_async while the executor exists: push under the mutex,
\* notify_one
TeardownSubmit ==
    /\ z_pc \in {"ready", "join_server", "join_clients", "components"}
    /\ z_pending < MaxPending
    /\ \A w \in TeardownEngineWorkers : z_engine[w] # "blocking"
    /\ z_pending' = z_pending + 1
    /\ \/ /\ \A w \in TeardownEngineWorkers : z_engine[w] # "asleep"
          /\ z_engine' = z_engine
       \/ \E w \in TeardownEngineWorkers :
            /\ z_engine[w] = "asleep"
            /\ z_engine' = [z_engine EXCEPT ![w] = "wait"]
    /\ UNCHANGED <<z_pc, z_running, z_shutdown, z_listener, z_clients,
                   z_interface>>
    /\ UNCHANGED nonTeardownVars

(***************************************************************************)
(* The specifications.                                                     *)
(***************************************************************************)
Init == PipeInit /\ EngineIdle /\ StatsInit /\ CodecIdle /\ QueueInit /\ BatchIdle /\ LifecycleInit /\ CaptureInit /\ HelperInit /\ SessionInit /\ HandleInit /\ RouterIdle /\ ReaderInit /\ TeardownInit

Next ==
    \/ StartSpawn
    \/ StartSetRunning
    \/ InitializeDone
    \/ StopBegin
    \/ StopJoinServer
    \/ StopJoinClients
    \/ ShutdownDone
    \/ ListenerCheck
    \/ \E c \in Clients : ListenerAccept(c)
    \/ ListenerRegister
    \/ \E c \in Clients : WorkerEnter(c)
    \/ \E c \in Clients : WorkerPoll(c)
    \/ \E c \in Clients : WorkerLeave(c)
    \/ \E c \in Clients : WorkerReply(c)
    \/ \E c \in Clients : WorkerCleanup(c)
    \/ \E c \in Clients : ClientSend(c)
    \/ \E c \in Clients : ClientClose(c)

Spec == Init /\ [][Next]_vars

\* Every thread of the server that can take a step eventually takes one.
\* When a client connects, writes or closes, and when the extension is
\* shut down, is up to the environment.
Fairness ==
    /\ WF_vars(StartSetRunning)
    /\ WF_vars(InitializeDone)
    /\ WF_vars(StopJoinServer)
    /\ WF_vars(StopJoinClients)
    /\ WF_vars(ListenerCheck)
    /\ WF_vars(ListenerRegister)
    /\ \A c \in Clients :
         /\ WF_vars(WorkerEnter(c))
         /\ WF_vars(WorkerPoll(c))
         /\ WF_vars(WorkerLeave(c))
         /\ WF_vars(WorkerReply(c))
         /\ WF_vars(WorkerCleanup(c))

FairSpec == Init /\ [][Next]_vars /\ Fairness

EngineNext == EngineExecute

InitEngine == EngineInit /\ PipeInit /\ StatsInit /\ CodecIdle /\ QueueInit /\ BatchIdle /\ LifecycleInit /\ CaptureInit /\ HelperInit /\ SessionInit /\ HandleInit /\ RouterIdle /\ ReaderInit /\ TeardownInit

SpecEngine == InitEngine /\ [][EngineNext]_vars

StatsNext ==
    \/ \E t \in Threads : ExecuteCall(t)
    \/ \E t \in Threads : ExecuteReturnEarly(t)
    \/ \E t \in Threads : StatsLock(t)
    \/ \E t \in Threads : StatsIncTotal(t)
    \/ \E t \in Threads : StatsIncKind(t)
    \/ get_stats
    \/ reset_stats

SpecStats == Init /\ [][StatsNext]_vars

CodecNext ==
    \/ CreateErrorMessage
    \/ SerializeCommand
    \/ SerializeResponse
    \/ SerializeError
    \/ SerializeHeartbeat
    \/ ParseCommand
    \/ ParseResponse
    \/ ParseError
    \/ ParseHeartbeat

InitCodec == PipeInit /\ EngineIdle /\ StatsInit /\ CodecInit /\ QueueInit /\ BatchIdle /\ LifecycleInit /\ CaptureInit /\ HelperInit /\ SessionInit /\ HandleInit /\ RouterIdle /\ ReaderInit /\ TeardownInit

SpecCodec == InitCodec /\ [][CodecNext]_vars

QueueNext ==
    \/ execute_command_async
    \/ cancel_all_pending
    \/ StopWorkerThreads
    \/ \E w \in EngineWorkers : WorkerLoopTop(w)
    \/ \E w \in EngineWorkers : WorkerFindsNothing(w)
    \/ \E w \in EngineWorkers : WorkerSleeps(w)
    \/ \E w \in EngineWorkers : SpuriousWakeup(w)
    \/ \E w \in EngineWorkers : WorkerTake(w)
    \/ \E w \in EngineWorkers : WorkerRun(w)
    \/ \E w \in EngineWorkers : WorkerReturn(w)
    \/ \E w \in EngineWorkers : JoinWorker(w)

\* A worker thread that can take a step eventually takes one, the debugger
\* returns from every call, and the thread in stop_worker_threads joins a
\* worker that has exited.  When tasks are submitted or cancelled is up to
\* the callers, and nothing promises a spurious wakeup.
SpecQueue ==
    /\ Init
    /\ [][QueueNext]_vars
    /\ \A w \in EngineWorkers :
         /\ WF_vars(WorkerLoopTop(w))
         /\ WF_vars(WorkerFindsNothing(w))
         /\ WF_vars(WorkerSleeps(w))
         /\ WF_vars(WorkerTake(w))
         /\ WF_vars(WorkerRun(w))
         /\ WF_vars(WorkerReturn(w))
         /\ WF_vars(JoinWorker(w))

BatchNext ==
    \/ BatchIterate
    \/ BatchReturn

InitBatch == PipeInit /\ EngineIdle /\ StatsInit /\ CodecIdle /\ QueueInit /\ BatchInit /\ LifecycleInit /\ CaptureInit /\ HelperInit /\ SessionInit /\ HandleInit /\ RouterIdle /\ ReaderInit /\ TeardownInit

SpecBatch == InitBatch /\ [][BatchNext]_vars

LifecycleNext ==
    \/ Initialize
    \/ Shutdown
    \/ CreateCommandHandlers

SpecLifecycle == Init /\ [][LifecycleNext]_vars

CaptureNext ==
    \/ Output
    \/ Clear

SpecCapture == Init /\ [][CaptureNext]_vars

HelperNext ==
    \E c \in CaptureScopes :
        \/ CaptureBegin(c)
        \/ CaptureGet(c)
        \/ CaptureSet(c)
        \/ CaptureExecute(c)
        \/ CaptureRestore(c)

SpecHelper == Init /\ [][HelperNext]_vars

SessionNext ==
    \/ \E r \in SessionReaders :
        \/ EnsureInitialized(r)
        \/ SessionInitialize(r)
        \/ LockShared(r)
        \/ ReturnReference(r)
        \/ CopyMember(r)
        \/ SnapshotUsed(r)
    \/ UpdateLock
    \/ AssignMember
    \/ UpdateUnlock

SpecSession == Init /\ [][SessionNext]_vars

HandleNext ==
    \/ AcquireHandle
    \/ \E w \in Wrappers :
        \/ Construct(w)
        \/ Release(w)
        \/ Reset(w)
        \/ Close(w)
        \/ Destroy(w)
        \/ \E other \in Wrappers :
            \/ MoveConstruct(w, other)
            \/ MoveAssign(w, other)

SpecHandle == Init /\ [][HandleNext]_vars

RouterNext == RouterHandle

InitRouter ==
    /\ PipeInit
    /\ EngineIdle
    /\ StatsInit
    /\ CodecIdle
    /\ QueueInit
    /\ BatchIdle
    /\ LifecycleInit
    /\ CaptureInit
    /\ HelperInit
    /\ SessionInit
    /\ HandleInit
    /\ RouterInit
    /\ ReaderInit
    /\ TeardownInit

SpecRouter == InitRouter /\ [][RouterNext]_vars

ReadNext ==
    \/ ConnectionPoll
    \/ ConnectionLeave
    \/ ConnectionCleanup
    \/ ServerStop

SpecRead == Init /\ [][ReadNext]_vars

TeardownNext ==
    \/ TeardownStop
    \/ TeardownJoinServer
    \/ TeardownJoinClients
    \/ TeardownComponents
    \/ TeardownJoinEngine
    \/ TeardownRelease
    \/ TeardownListenerCheck
    \/ TeardownListenerAccept
    \/ \E p \in PipeWorkers : TeardownListenerRegister(p)
    \/ \E p \in PipeWorkers : PipeWorkerPoll(p)
    \/ \E p \in PipeWorkers : PipeWorkerCommand(p)
    \/ \E p \in PipeWorkers : PipeWorkerLeave(p)
    \/ \E p \in PipeWorkers : PipeWorkerCleanup(p)
    \/ \E w \in TeardownEngineWorkers : EngineLoopTop(w)
    \/ \E w \in TeardownEngineWorkers : EngineWait(w)
    \/ \E w \in TeardownEngineWorkers : EngineSleep(w)
    \/ \E w \in TeardownEngineWorkers : EngineTask(w)
    \/ TeardownSubmit

SpecTeardown == Init /\ [][TeardownNext]_vars

(***************************************************************************)
(* Properties.                                                             *)
(***************************************************************************)
Last(seq) == seq[Len(seq)]

IsPrefix(p, q) == Len(p) <= Len(q) /\ SubSeq(q, 1, Len(p)) = p

\* C1: on one connection the requests are handled one at a time in arrival
\* order: the worker reads the messages in the order they were written, it
\* reads message k+1 only when the replies to messages 1..k have all been
\* written, and each write appends the reply to the message last read.
C1_OneAtATimeInOrder ==
    [][\A c \in Clients :
         /\ rd'[c] # rd[c] =>
              /\ rd'[c] = rd[c] + 1
              /\ Len(outbox[c]) = rd[c]
              /\ cur'[c] = sentLog[c][rd[c] + 1]
         /\ outbox'[c] # outbox[c] =>
              /\ Len(outbox'[c]) = rd[c]
              /\ IsPrefix(outbox[c], outbox'[c])]_vars

C1_Witness ==
    \E c \in Clients : rd[c] = 2 /\ Len(outbox[c]) = 2 /\ wpc[c] = "loop"

\* C2: when the listener has accepted a second client while a first
\* connection is being served, it registers the second connection (and
\* starts its worker) without the first connection having to end.
C2_SecondClientRegistered == (lpc = "register") ~> (lpc # "register")

\* C3: every reply to a message that parsed as a Command carries that
\* Command's request_id.
C3_ReplyEchoesRequestId ==
    \A c \in Clients : \A k \in 1..Len(outbox[c]) :
        LET parsed == parse_command(sentLog[c][k])
        IN parsed.error = "None" =>
               outbox[c][k].request_id = parsed.request.request_id

\* A connected client's command that has not been answered yet, while the
\* server is up, no client has left and every message written so far is a
\* framed command.
Serving ==
    /\ spc = "ready"
    /\ \A c \in Clients : cstate[c] # "closed"
    /\ \A c \in Clients : \A k \in 1..Len(sentLog[c]) : WellFormed(sentLog[c][k])

Unanswered(c) == Len(outbox[c]) < Len(sentLog[c])

\* C4: with several clients connected, each sending well-formed commands,
\* every command is eventually answered on its own connection.
C4_EveryCommandAnswered ==
    \A c \in Clients : [](Unanswered(c) => <>(~Unanswered(c) \/ ~Serving))

\* The commands the safety denylist covers, written out from the rule: a
\* dangerous prefix in any letter case, "rm " or "del " anywhere, or more
\* than MaxCommandLength bytes.
DenylistPrefixes ==
    { <<"e","d"," ">>, <<"e","b"," ">>, <<"e","w"," ">>, <<"e","q"," ">>,
      <<".","r","e","b","o","o","t">>, <<".","c","r","a","s","h">>,
      <<"!","p","r","o","c","e","s","s"," ","0"," ","7">>,
      <<".","d","e","t","a","c","h">>, <<".","k","i","l","l">>,
      <<"s","x","e">>, <<"s","x","d">> }

StartsWithIgnoringCase(str, p) ==
    Len(str) >= Len(p) /\ to_lower(SubSeq(str, 1, Len(p))) = p

Contains(str, p) ==
    \E i \in 1..(Len(str) - Len(p) + 1) : SubSeq(str, i, i + Len(p) - 1) = p

DenylistCovers(command) ==
    \/ \E p \in DenylistPrefixes : StartsWithIgnoringCase(command.text, p)
    \/ Contains(command.text, <<"r","m"," ">>)
    \/ Contains(command.text, <<"d","e","l"," ">>)
    \/ CmdLength(command) > MaxCommandLength

\* C5: with validation enabled, execute_command on a command the denylist
\* covers returns success = false with a non-empty error_message and hands
\* nothing to the debugger adapter.
C5_DenylistedNeverExecuted ==
    (e_pc = "done" /\ e_opt.validate_command /\ DenylistCovers(e_cmd)) =>
        /\ ~e_res.success
        /\ e_res.error_message # ""
        /\ e_res.adapter_calls = <<>>

C5_Witness ==
    /\ e_pc = "done"
    /\ e_opt.validate_command
    /\ e_env.session_manager
    /\ e_cmd = Cmd(<<"E","D"," ","1">>)
    /\ ~e_res.success

\* C6: the reply to a command that validation rejects has success = false
\* and an error_message that gives the reason.
C6_RejectionReportedAsFailure ==
    \A c \in Clients : \A k \in 1..Len(outbox[c]) :
        LET parsed == parse_command(sentLog[c][k])
        IN (/\ parsed.error = "None"
            /\ ~validate_command_syntax(Cmd(Chars(parsed.request.command)))
            /\ outbox[c][k].type = "response")
           => /\ ~outbox[c][k].success
              /\ outbox[c][k].error_message # ""

\* C7: bytes that do not contain the delimiter are never handed to the
\* parser.
C7_UndelimitedNeverParsed ==
    \A c \in Clients : wpc[c] = "reply" => HasDelimiter(cur[c])

\* C8: a message that fails to parse is answered, on a connection whose
\* client is still there, with one Response that has success = false, a
\* non-empty error_message and request_id "unknown", and the connection
\* stays open: the worker goes back to reading.
C8_ParseFailureAnswered ==
    [][\A c \in Clients :
         (/\ wpc[c] = "reply"
          /\ wpc'[c] # "reply"
          /\ parse_command(cur[c]).error # "None"
          /\ cstate[c] = "connected")
         => /\ Len(outbox'[c]) = Len(outbox[c]) + 1
            /\ IsPrefix(outbox[c], outbox'[c])
            /\ Last(outbox'[c]).type = "response"
            /\ Last(outbox'[c]).request_id = "unknown"
            /\ ~Last(outbox'[c]).success
            /\ Last(outbox'[c]).error_message # ""
            /\ active'[c]
            /\ wpc'[c] = "loop"]_vars

\* A parse failure was answered and a later message on the same connection
\* was answered after it.
C8_Witness ==
    \E c \in Clients :
        /\ Len(outbox[c]) = 2
        /\ parse_command(sentLog[c][1]).error # "None"
        /\ outbox[c][1].request_id = "unknown"
        /\ parse_command(sentLog[c][2]).error = "None"

\* C9: once a poll has found the pipe broken, the connection is inactive,
\* its worker has left the message loop, and nothing more is written to
\* the client.
C9_BrokenPipeEndsWorker ==
    /\ [](\A c \in Clients :
            lastRead[c] = "broken" =>
                ~active[c] /\ wpc[c] \in {"cleanup", "done"})
    /\ [][\A c \in Clients :
            lastRead[c] = "broken" => outbox'[c] = outbox[c]]_vars

C9_Witness ==
    \E c \in Clients :
        lastRead[c] = "broken" /\ wpc[c] = "done" /\ Len(outbox[c]) = 1

\* C10: once stop() has returned, is_running() is false, every worker has
\* exited and the connection list is empty.
C10_StopLeavesNothing ==
    spc \in {"stopped", "shut_down"} =>
        /\ ~running
        /\ \A c \in Clients : wpc[c] \in {"none", "done"}
        /\ connections = <<>>


\* C11: a call to stop() on a running server always returns: once stop()
\* has cleared running_ and waits for the listener thread, it eventually
\* returns, whether or not another client connects.
C11_StopAlwaysReturns == (spc = "stop_join_server") ~> (spc = "stopped")

\* C12: every Response the server sends has an empty error_message when
\* success is true and a non-empty error_message when success is false.
C12_SuccessIffNoErrorMessage ==
    \A c \in Clients : \A i \in 1..Len(outbox[c]) :
        outbox[c][i].type = "response" =>
            /\ outbox[c][i].success => outbox[c][i].error_message = ""
            /\ ~outbox[c][i].success => outbox[c][i].error_message # ""

\* A client has received a successful Response and a failed one.
C12_Witness ==
    \E c \in Clients : \E i, j \in 1..Len(outbox[c]) :
        /\ outbox[c][i].type = "response" /\ outbox[c][i].success
        /\ outbox[c][j].type = "response" /\ ~outbox[c][j].success

\* C13: the engine's statistics satisfy total = successful + failed at
\* every moment they can be read: in every snapshot get_stats returns, and
\* in stats_ itself whenever no update holds the lock, with commands
\* executing on several threads and across reset_stats.
C13_TotalIsSuccessfulPlusFailed ==
    /\ snapshot.total_commands_executed =
           snapshot.successful_commands + snapshot.failed_commands
    /\ stats_mutex = NoThread =>
           stats_.total_commands_executed =
               stats_.successful_commands + stats_.failed_commands

\* A snapshot with a success and a failure was read, the statistics were
\* reset since, and now one thread is in the middle of its update while the
\* other waits for the lock.
C13_Witness ==
    /\ snapshot.successful_commands > 0
    /\ snapshot.failed_commands > 0
    /\ stats_.total_commands_executed = 1
    /\ stats_.successful_commands + stats_.failed_commands = 0
    /\ \E t, u \in Threads :
         /\ stats_mutex = t /\ t_pc[t] = "counted"
         /\ t_pc[u] = "run" /\ t_res[u].stats # "none"

\* C14: every engine execution that ends in an error increments the
\* engine's failure statistics: when execute_command returns a result that
\* is not a success, failed_commands has just been incremented.
C14_EveryErrorCounted ==
    [][\A t \in Threads :
          (t_pc[t] # "idle" /\ t_pc'[t] = "idle" /\ ~t_res[t].success)
              => stats_'.failed_commands = stats_.failed_commands + 1]_vars

\* C15: after a client disconnects and its connection has been cleaned up,
\* the server's active_connections statistic is lower than before by the
\* connections the cleanup removed (one per disconnected client).
C15_ActiveConnectionsDecrements ==
    [][Len(connections') < Len(connections) =>
          server_stats'.active_connections =
              server_stats.active_connections
                  - (Len(connections) - Len(connections'))]_vars

\* C16: serialising a command request and parsing the result yields a
\* request equal to the original on every field, and the same holds for
\* serialising and parsing a response.
C16_RoundTripPreservesEveryField ==
    (k_pc = "parsed" /\ k_bytes.error = "None"
        /\ k_msg.kind \in {"Command", "Response"}
        /\ k_parsed.parser = k_msg.kind)
    => (k_parsed.error = "None" /\ k_parsed.value = k_msg.value)

\* The framing the specification describes: the buffer ends with the
\* delimiter ...
EndsWithDelimiter(bytes) ==
    bytes # <<>> /\ bytes[Len(bytes)].t = "delim"

\* ... and what precedes the first delimiter is one JSON text.
ContentIsJson(bytes) ==
    /\ HasDelimiter(bytes)
    /\ DelimiterPos(bytes) = 2
    /\ bytes[1].t = "json"

\* C17: every parse operation returns InvalidMessage for any byte buffer
\* that does not end with the message delimiter or whose content is not
\* valid JSON.
C17_UnframedOrNotJsonIsInvalid ==
    (k_pc = "parsed"
        /\ (~EndsWithDelimiter(k_bytes.bytes)
               \/ ~ContentIsJson(k_bytes.bytes)))
    => k_parsed.error = "InvalidMessage"

\* The keys every envelope must have, and the payload fields the data
\* model requires for each message type.
EnvelopeKeys == {"protocol_version", "message_type", "payload"}

RequiredFields ==
    [Command |-> {"request_id", "command"}, Response |-> {"request_id"},
     Error |-> {}, Heartbeat |-> {}]

\* A buffer that is one JSON text followed by the delimiter
WellFramed(bytes) ==
    Len(bytes) = 2 /\ bytes[1].t = "json" /\ bytes[2].t = "delim"

\* C18: each of the four parse operations returns InvalidMessage when the
\* envelope lacks protocol_version, message_type or payload, or when the
\* payload lacks a field required for that message type.
C18_MissingKeyIsInvalid ==
    (k_pc = "parsed" /\ WellFramed(k_bytes.bytes)
        /\ (~(EnvelopeKeys \subseteq k_bytes.bytes[1].doc.keys)
               \/ ~(RequiredFields[k_parsed.parser]
                       \subseteq k_bytes.bytes[1].doc.payload.keys)))
    => k_parsed.error = "InvalidMessage"

\* C19: no serialize operation returns a successful buffer longer than
\* MAX_MESSAGE_SIZE bytes including the delimiter.
C19_SerializedSizeBounded ==
    (k_pc = "bytes" /\ k_msg.kind # "none" /\ k_bytes.error = "None")
    => buffer_size(k_bytes.bytes) <= MAX_MESSAGE_SIZE

\* The error taxonomy: code -> category
ErrorTaxonomy ==
    [InvalidMessage |-> "System", CommandFailed |-> "System",
     Timeout |-> "Timeout", ConnectionLost |-> "Communication",
     InvalidParameter |-> "UserInput", UnknownCommand |-> "UserInput",
     ExtensionNotLoaded |-> "Extension", SymbolLoadError |-> "Symbol",
     MemoryAccessError |-> "Memory", ProcessNotFound |-> "Process",
     ThreadError |-> "Process", InternalError |-> "System"]

\* C20: the error helper assigns each error code of the taxonomy table the
\* category the table gives; in particular Timeout gets category Timeout.
C20_CategoryFollowsTaxonomy ==
    [][(CreateErrorMessage
          /\ k_msg'.value.error_code \in DOMAIN ErrorTaxonomy)
       => k_msg'.value.category
              = ErrorTaxonomy[k_msg'.value.error_code]]_vars

\* C21: cancel_all_pending removes every task that has not started yet,
\* that is, every task still on the queue, and none of them ever runs
\* afterwards; it leaves alone every task a worker has taken, and such a
\* task still completes.
C21_CancelRemovesOnlyPending ==
    /\ [][cancel_all_pending =>
            /\ \A id \in 1..MaxTasks :
                  q_tasks[id].state = "pending" => q_tasks'[id].state = "cancelled"
            /\ \A id \in 1..MaxTasks :
                  q_tasks[id].state # "pending" => q_tasks'[id] = q_tasks[id]
            /\ qw_pc' = qw_pc /\ qw_task' = qw_task]_vars
    /\ [][\A id \in 1..MaxTasks :
            q_tasks[id].state = "cancelled" => q_tasks'[id].state = "cancelled"]_vars
    /\ \A id \in 1..MaxTasks :
         (q_tasks[id].state \in {"taken", "running"})
             ~> (q_tasks[id].state = "completed")

\* The first task is in the debugger; the two tasks queued behind it have
\* been cancelled.
C21_Witness ==
    /\ q_tasks[1].state = "running"
    /\ q_tasks[2].state = "cancelled"
    /\ q_tasks[3].state = "cancelled"

\* C28: at most one text-command invocation on the debugger adapter is in
\* progress at any time.
C28_OneAdapterCallAtATime ==
    Cardinality({w \in EngineWorkers : qw_pc[w] = "Execute"}) <= 1

\* C22: when execute is called with retry_count = n > 0, an attempt that
\* ends in Timeout, the debugger taking longer over the command than the
\* timeout allows, is followed by another attempt.
C22_TimeoutIsRetried ==
    (/\ e_pc = "done"
     /\ e_opt.retry_count > 0
     /\ e_res.adapter_calls # <<>>
     /\ e_env.outlasts_timeout)
        => Len(e_res.adapter_calls) > 1

\* C23: execute_batch runs all n commands in the given order even when some
\* of them fail, invokes the progress callback after each command with
\* (1,n), (2,n), ..., (n,n) in that order, and returns n results in input
\* order with successful + failed = n.
C23_BatchRunsAllInOrder ==
    LET n == Len(b_commands)
    IN /\ b_callback => b_progress = [k \in 1..b_i |-> <<k, n>>]
       /\ b_executed = SubSeq(b_commands, 1, b_i)
       /\ b_pc = "done" =>
            /\ b_i = n
            /\ Len(batch_result.results) = n
            /\ \A k \in 1..n :
                 batch_result.results[k].command_executed = b_commands[k]
            /\ batch_result.successful_commands
                 + batch_result.failed_commands = n
            /\ batch_result.successful_commands
                 = Cardinality({k \in 1..n : batch_result.results[k].success})

\* A batch of three with a callback has returned; its first command failed
\* and a later one succeeded.
C23_Witness ==
    /\ b_pc = "done"
    /\ b_callback
    /\ Len(b_commands) = MaxBatch
    /\ ~batch_result.results[1].success
    /\ batch_result.results[MaxBatch].success
    /\ Len(b_progress) = MaxBatch

IsSetUp(e) == e[1] \in {"acquire", "create"}

IsTornDown(e) == e[1] \in {"release", "destroy"}

Objects(events) == [i \in 1..Len(events) |-> events[i][2]]

Reverse(seq) == [i \in 1..Len(seq) |-> seq[Len(seq) + 1 - i]]

\* C24: if any step of initialize fails, initialize returns that step's
\* error, the extension stays not-initialized, and everything the earlier
\* steps created is torn down in reverse order: no pipe server is left, no
\* engine or session store alive, no debugger sub-interface acquired.
C24_FailedInitializeUndoesEverything ==
    (x_ret.call = "initialize" /\ x_ret.result \notin {"None", "AlreadyInitialized"})
        => /\ x_ret.failure # "none"
           /\ x_ret.result =
                IF x_ret.failure = "null client" THEN "InitializationFailed"
                ELSE IF x_ret.failure \in InterfaceNames
                THEN "DebuggerInterfaceError"
                ELSE IF x_ret.failure \in {"SessionManager", "CommandExecutor"}
                THEN "InitializationFailed"
                ELSE "CommunicationSetupFailed"
           /\ ext = ExtensionImpl
           /\ \A k \in InterfaceNames : x_refs[k] = 0
           /\ Objects(SelectSeq(x_events, IsTornDown))
                = Reverse(Objects(SelectSeq(x_events, IsSetUp)))

\* initialize has failed at start(), after the four interfaces, the
\* session store, the engine and the pipe server were there.
C24_Witness ==
    /\ x_ret.call = "initialize"
    /\ x_ret.failure = "start"
    /\ x_ret.result = "CommunicationSetupFailed"
    /\ Len(SelectSeq(x_events, IsTornDown)) = 7

\* C25: initialize on an already-initialized extension returns
\* AlreadyInitialized and changes nothing, and shutdown on an extension
\* that is not initialized, a second shutdown in a row included, does
\* nothing.
C25_RepeatedCallsChangeNothing ==
    /\ [][(Initialize /\ ext.initialized_) =>
            /\ x_ret'.result = "AlreadyInitialized"
            /\ ext' = ext /\ x_refs' = x_refs /\ x_events' = <<>>]_vars
    /\ [][(Shutdown /\ ~ext.initialized_) =>
            /\ ext' = ext /\ x_refs' = x_refs /\ x_events' = <<>>]_vars

\* initialize has just been refused on an initialized extension.
C25_Witness ==
    /\ x_ret.call = "initialize"
    /\ x_ret.result = "AlreadyInitialized"
    /\ ext.initialized_

Truncated(pieces) ==
    \E i \in 1..Len(pieces) : pieces[i] = TruncationSentinel

\* C26: once a chunk would push the captured output past 1 MB, the
\* truncation sentinel line is appended exactly once and every later chunk
\* is dropped: the captured buffer stays unchanged until it is reset.
C26_TruncatedBufferStaysUnchanged ==
    [][(Output /\ Truncated(output_)) => output_' = output_]_vars

\* C27: when the capture around a command has ended, on success and on every
\* error path, the debugger's output callback is again the one that was
\* installed before the capture was set up; a capture that could not install
\* its sink leaves the callback alone.
C27_CallbackRestoredOnEveryPath ==
    [][\A c \in CaptureScopes :
          (h_pc[c] # "idle" /\ h_pc'[c] = "idle")
              => IF h_pc[c] = "Set"
                 THEN client_callbacks' = client_callbacks
                 ELSE client_callbacks' = h_original[c]]_vars

\* C29: a session snapshot read concurrently with an update equals the
\* complete state before the update or the complete state after it, never a
\* mixture of members from both.
C29_SnapshotIsOneCompleteState ==
    \A r \in SessionReaders :
        s_pc[r] = "done" => s_snapshot[r] \in s_states

\* The live wrappers that hold a handle
Holders(h) == {w \in w_alive : handle_[w] = h}

\* C30: across any sequence of adopt, move, replace, release without close,
\* close and destruction, no handle is closed twice; an adopted handle that
\* has not been closed is held by exactly one live wrapper or is back in the
\* caller's hands by release(), so once the wrappers are gone every adopted
\* handle that was not released has been closed exactly once; and nothing is
\* ever closed for an invalid wrapper.
C30_EachHandleClosedOnce ==
    /\ \A h \in Handles :
         /\ os_closes[h] <= 1
         /\ os_closes[h] = 1 => h \in k_adopted /\ Holders(h) = {}
         /\ (h \in k_adopted /\ os_closes[h] = 0) =>
               \/ Cardinality(Holders(h)) = 1 /\ h \notin k_raw
               \/ Holders(h) = {} /\ h \in k_raw /\ h \in k_released
    /\ os_closes[INVALID_HANDLE_VALUE] = 0
    /\ os_closes[NullHandle] = 0

\* Every wrapper is gone: a handle that was moved between wrappers has been
\* closed once, a released one is still open, and close() was called on an
\* invalid wrapper along the way.
C30_Witness ==
    /\ w_alive = {}
    /\ k_noop
    /\ \E h \in k_moved : os_closes[h] = 1
    /\ \E h \in k_released : os_closes[h] = 0

\* C35: destroying the engine always completes: once shutdown is requested
\* every worker thread wakes up, leaves its loop and is joined.
C35_DestructionCompletes ==
    shutdown_requested_ ~> (worker_threads_ = {})

\* C36: when the engine is destroyed the queue is drained: by the time the
\* workers are joined, every task that was queued has been run (or was
\* cancelled by cancel_all_pending).
C36_QueueDrainedAtDestruction ==
    (shutdown_requested_ /\ worker_threads_ = {})
        => \A id \in Submitted : q_tasks[id].state \in {"completed", "cancelled"}

\* C38: the output returned for a command consists only of text the
\* debugger emitted for that command, even when several commands execute at
\* the same time: no command's text is captured by another command's sink.
C38_OutputIsTheCommandsOwn ==
    \A c \in CaptureScopes :
        /\ h_captured[c] \subseteq {c}
        /\ h_returned[c] \subseteq {c}

\* The process commands whose typed handlers emit them
ProcessControlWords == { <<".","d","e","t","a","c","h">>, <<".","k","i","l","l">> }

\* C33: a .detach or .kill command received over the pipe and routed to
\* its typed handler bypasses the dangerous-command list and reaches the
\* debugger adapter.
C33_RoutedDetachKillReachAdapter ==
    (/\ r_pc = "done"
     /\ FirstWord([text |-> trim(to_lower(r_cmd.text)), pad |-> r_cmd.pad])
            \in ProcessControlWords)
        => r_res.adapter_calls # <<>>

\* C39: for .create <path> the path reaches the debugger adapter exactly
\* as the client wrote it, with letter case and every character unchanged.
C39_CreatePathPassedAsIs ==
    \A path \in RouterPaths :
        (r_pc = "done" /\ r_cmd = CreateCommand(path))
            => r_res.adapter_calls = <<CreateCommand(path)>>

\* C40: for db|dd|dw|dq <hex-addr> L<hex-count> the count the client
\* supplied determines the size of the memory command sent to the debugger
\* (multiplied by 2 for dw and by 8 for dq); the default size 0x100 is used
\* only when no count is given.
C40_CountDeterminesSize ==
    \A kind \in MemoryKinds, address \in RouterAddresses,
       count \in RouterCounts :
        (r_pc = "done" /\ r_cmd = MemoryCommand(kind, address, "L", count))
            => r_res.adapter_calls =
                   memory_handler(kind, stoull_16(address),
                                  IF count = <<>> THEN DefaultMemorySize
                                  ELSE stoull_16(count),
                                  r_env).adapter_calls

\* C34: once start() has returned success, the listener thread is running
\* its accept loop and stays in it until stop() is called, whatever the
\* interleaving between start() and the listener thread's first check of
\* the running flag.
C34_ListenerRunsUntilStop ==
    spc \in {"started", "ready"} => lpc \in {"check", "accept", "register"}

\* The status with which the last read_message failed, "none" when it
\* did not fail
LastReadFailure ==
    IF n_polls = <<>> THEN "none"
    ELSE LET os == n_polls[Len(n_polls)]
         IN IF os.peek # "ok" THEN os.peek
            ELSE IF os.available /\ os.read # "ok" THEN os.read
            ELSE "none"

\* C32: a read failure whose status is anything other than broken pipe,
\* not-connected or no-data does not end the connection: the worker keeps
\* polling it for further messages.
C32_OtherReadFailureKeepsPolling ==
    (LastReadFailure # "none" /\ is_pipe_error_recoverable(LastReadFailure))
        => /\ n_active
           /\ n_running => n_pc = "loop"

\* C37: a connection is removed from the connection list and destroyed
\* only after it has been marked inactive and its worker has left its
\* processing loop; no worker ever uses a connection that has been
\* destroyed.
C37_RemovedOnlyWhenInactiveAndLeft ==
    \A c \in Clients :
        /\ (wpc[c] # "none" /\ c \notin Range(connections))
               => (~active[c] /\ wpc[c] \in {"cleanup", "done"})
        /\ (wpc[c] \in {"loop", "reply"} \/ c \in readers)
               => c \in Range(connections)

\* A connection has been erased while the other connection's worker is
\* still in its loop.
C37_Witness ==
    \E c, d \in Clients :
        /\ wpc[c] = "done"
        /\ c \notin Range(connections)
        /\ wpc[d] \in {"loop", "reply"}

\* C31: during shutdown no debugger sub-interface is released while any
\* pipe worker or engine worker can still call it: all such workers have
\* exited before the first sub-interface is released.
C31_WorkersExitedBeforeRelease ==
    (\E k \in InterfaceNames : ~z_interface[k])
        => /\ \A p \in PipeWorkers : z_clients[p] \in {"none", "exited"}
           /\ \A w \in TeardownEngineWorkers : z_engine[w] = "exited"

\* The first sub-interface has been released after a pipe worker served a
\* connection and ended.
C31_Witness ==
    /\ ~z_interface["IDebugSymbols"]
    /\ z_interface["IDebugControl"]
    /\ \E p \in PipeWorkers : z_clients[p] = "exited"

=============================================================================
